---- MODULE Spec2Model ----
(***************************************************************************)
(* Symbol-graph core of contextSlicer: PathResolver, buildAstCache,        *)
(* discoverSymbols, linkDependencies / resolveExport, runASTParser and     *)
(* traceSymbolGraph.  Paths, specifiers, node IDs and diagnostics are      *)
(* strings, handled character by character the way the TypeScript does.    *)
(* A parsed file is the document-order list of the Babel nodes the passes  *)
(* visit (import / export / declaration statements).                       *)
(***************************************************************************)
EXTENDS Integers, Sequences, FiniteSets, TLC

(***************************************************************************)
(* Bounds of the model.                                                    *)
(***************************************************************************)
\* how many injected failures (parse error, traversal exception) one build may carry
MaxFaults == 1
\* recursion budget of resolveExport; the visited set must end the recursion first
MaxResolveDepth == 7
\* largest hop limit a trace request uses
MaxHops == 2

\* the store is driven by at most this many calls of its actions
MaxTriggers == 3

\* resolve calls made on one PathResolver from outside a build
MaxCalls == 2

(***************************************************************************)
(* JavaScript values and string primitives.                                *)
(***************************************************************************)
\* JS null / undefined
NULL == "<null>"

\* JS truthiness of a `string | null`
Falsy(v) == v = NULL \/ v = ""

Range(q) == {q[i] : i \in 1..Len(q)}

\* Set.prototype.add on an insertion-ordered Set
SetAdd(q, x) == IF x \in Range(q) THEN q ELSE Append(q, x)

\* String.prototype.startsWith
StartsWith(s, p) == Len(p) <= Len(s) /\ SubSeq(s, 1, Len(p)) = p

\* the `$`-anchored tail test of a regular expression
EndsWith(s, p) == Len(p) <= Len(s) /\ SubSeq(s, Len(s) - Len(p) + 1, Len(s)) = p

\* String.prototype.includes
Includes(s, p) == \E i \in 1..(Len(s) + 1) : StartsWith(SubSeq(s, i, Len(s)), p)

\* String.prototype.lastIndexOf for a one-character needle, as a JS 0-based index (-1: none)
LastIndexOf(s, c) ==
  LET hits == {i \in 1..Len(s) : SubSeq(s, i, i) = c}
  IN  IF hits = {} THEN -1 ELSE (CHOOSE i \in hits : \A j \in hits : j <= i) - 1

\* String.prototype.substring(0, end): a negative end counts as 0
Substring0(s, end) == IF end <= 0 THEN "" ELSE SubSeq(s, 1, end)

\* String.prototype.split('/')
RECURSIVE SplitFrom(_, _, _)
SplitFrom(s, i, cur) ==
  IF i > Len(s) THEN <<cur>>
  ELSE IF SubSeq(s, i, i) = "/" THEN <<cur>> \o SplitFrom(s, i + 1, "")
  ELSE SplitFrom(s, i + 1, cur \o SubSeq(s, i, i))

Split(s) == SplitFrom(s, 1, "")

\* Array.prototype.join('/')
RECURSIVE JoinSlash(_)
JoinSlash(parts) ==
  IF Len(parts) = 0 THEN ""
  ELSE IF Len(parts) = 1 THEN parts[1]
  ELSE parts[1] \o "/" \o JoinSlash(Tail(parts))

\* path.join
pathJoin(a, b) == JoinSlash(<<a, b>>)

\* the stack loop of path.normalize
RECURSIVE NormalizeStack(_, _)
NormalizeStack(parts, stack) ==
  IF Len(parts) = 0 THEN stack
  ELSE LET part == Head(parts) IN
       IF part = "." \/ part = "" THEN NormalizeStack(Tail(parts), stack)
       ELSE IF part = ".."
            THEN NormalizeStack(Tail(parts),
                   IF Len(stack) > 0 THEN SubSeq(stack, 1, Len(stack) - 1) ELSE stack)
            ELSE NormalizeStack(Tail(parts), Append(stack, part))

\* path.normalize
pathNormalize(p) == JoinSlash(NormalizeStack(Split(p), <<>>))

\* importPath.replace(/\.(ts|tsx|js|jsx)$/, '')
StripSourceExt(p) ==
  IF EndsWith(p, ".tsx") THEN SubSeq(p, 1, Len(p) - 4)
  ELSE IF EndsWith(p, ".jsx") THEN SubSeq(p, 1, Len(p) - 4)
  ELSE IF EndsWith(p, ".ts") THEN SubSeq(p, 1, Len(p) - 3)
  ELSE IF EndsWith(p, ".js") THEN SubSeq(p, 1, Len(p) - 3)
  ELSE p

\* /\.(ts|tsx|js|jsx)$/.test(f.path)
IsSourcePath(p) ==
  EndsWith(p, ".ts") \/ EndsWith(p, ".tsx") \/ EndsWith(p, ".js") \/ EndsWith(p, ".jsx")


(***************************************************************************)
(* State.                                                                  *)
(***************************************************************************)
VARIABLES
  fileIndex,        \* Map<string, FileEntry> in insertion order: <<[path, ast]>>
  aliasMap,         \* Record<string, string> in key order: <<[name, target]>>
  faults,           \* the failures this build meets: parser and traversal exceptions
  pc,               \* position of runASTParser: "parse", "discover", "link", "done"
  idx,              \* index of the next entry the running pass handles
  astCache,         \* keys of the AstCache Map, in insertion order
  graph,            \* SymbolGraph: node id -> SymbolNode
  graphOrder,       \* insertion order of the SymbolGraph Map
  errors,           \* the diagnostics array shared by the passes
  console,          \* console.warn lines
  resolutionCache,  \* PathResolver.resolutionCache: key -> string | null
  exportCalls,      \* the top-level resolveExport calls of the linking pass, with what they visited
  traced,           \* the last traceSymbolGraph call and its result (NULL before the first)
  resolveCalls,     \* the resolve calls made on a PathResolver from outside a build, with their results
  store,            \* the zustand store: status, error, fileIndex, symbolGraph, graphStatus, ...
  loads,            \* the setFileSource calls made, each with the await it is suspended at
  builds,           \* the buildSymbolGraph invocations made, each with its position
  generates,        \* the handleGenerate requests made, each with its outcome
  triggers          \* how many store actions have been called

builderVars == <<fileIndex, aliasMap, faults, pc, idx, astCache, graph, graphOrder, errors,
                 console, resolutionCache, exportCalls, traced, resolveCalls>>

storeVars == <<store, loads, builds, generates, triggers>>

vars == <<fileIndex, aliasMap, faults, pc, idx, astCache, graph, graphOrder, errors,
          console, resolutionCache, exportCalls, traced, resolveCalls,
          store, loads, builds, generates, triggers>>

(***************************************************************************)
(* PathResolver.                                                           *)
(***************************************************************************)
\* this.filePaths = new Set(filePaths), from Array.from(fileIndex.keys())
filePaths == {fileIndex[i].path : i \in 1..Len(fileIndex)}

\* this.packageRoots: each alias target with its last path segment trimmed
packageRoots ==
  [i \in 1..Len(aliasMap) |->
     [name |-> aliasMap[i].name,
      root |-> Substring0(aliasMap[i].target, LastIndexOf(aliasMap[i].target, "/"))]]

\* getPackageRoot: the longest root the path starts with (the first of equal length), or null
getPackageRoot(filePath) ==
  LET hits == {i \in 1..Len(packageRoots) : StartsWith(filePath, packageRoots[i].root)}
  IN  IF hits = {} THEN NULL
      ELSE LET best == CHOOSE i \in hits :
                         \A j \in hits :
                           \/ Len(packageRoots[j].root) < Len(packageRoots[i].root)
                           \/ (Len(packageRoots[j].root) = Len(packageRoots[i].root) /\ i <= j)
           IN  packageRoots[best].root

\* the cache is keyed by the specifier alone
ResolveKeyBySpecifier(fromPath, importPath) == importPath

\* `${fromPath}|${importPath}`
ResolveKey(fromPath, importPath) == fromPath \o "|" \o importPath

\* the alias loop: the first alias (in key order) the specifier starts with, or 0
MatchedAlias(importPathWithoutExt) ==
  LET hits == {i \in 1..Len(aliasMap) : StartsWith(importPathWithoutExt, aliasMap[i].name)}
  IN  IF hits = {} THEN 0 ELSE CHOOSE i \in hits : \A j \in hits : i <= j

\* the alias target and the remainder are joined but '.' and '..' segments are kept
AliasJoined(importPathWithoutExt) ==
  LET a == MatchedAlias(importPathWithoutExt)
  IN  IF a = 0 THEN NULL
      ELSE pathJoin(aliasMap[a].target,
             SubSeq(importPathWithoutExt, Len(aliasMap[a].name) + 1, Len(importPathWithoutExt)))

\* resolvedPath after the alias loop
AliasResolved(importPathWithoutExt) ==
  LET a == MatchedAlias(importPathWithoutExt)
  IN  IF a = 0 THEN NULL
      ELSE pathNormalize(pathJoin(aliasMap[a].target,
             SubSeq(importPathWithoutExt, Len(aliasMap[a].name) + 1, Len(importPathWithoutExt))))

\* the relative candidate: normalize(join(dirname(fromPath), specifier))
RelativeCandidate(fromPath, importPathWithoutExt) ==
  pathNormalize(pathJoin(Substring0(fromPath, LastIndexOf(fromPath, "/")), importPathWithoutExt))

InvalidImportMessage(fromPath, importPath) ==
  "[Invalid Import] File '" \o fromPath
    \o "' cannot use a relative path to import from another package: '" \o importPath
    \o "'. Use an alias instead."

\* fromPackage && toPackage && fromPackage !== toPackage
CrossesPackages(fromPath, candidatePath) ==
  LET fromPackage == getPackageRoot(fromPath)
      toPackage == getPackageRoot(candidatePath)
  IN  ~Falsy(fromPackage) /\ ~Falsy(toPackage) /\ fromPackage # toPackage

\* extensions.flatMap(ext => [`${resolvedPath}${ext}`, `${resolvedPath}/index${ext}`])
Attempts(resolvedPath) ==
  <<resolvedPath \o ".ts",  resolvedPath \o "/index.ts",
    resolvedPath \o ".tsx", resolvedPath \o "/index.tsx",
    resolvedPath \o ".js",  resolvedPath \o "/index.js",
    resolvedPath \o ".jsx", resolvedPath \o "/index.jsx",
    resolvedPath,           resolvedPath \o "/index">>

\* the first attempt is returned without looking it up in the known file set
FirstAttempt(resolvedPath) == Attempts(resolvedPath)[1]

\* the probing loop: the first attempt in the known file set, or null
Probe(resolvedPath) ==
  LET attempts == Attempts(resolvedPath)
      hits == {i \in 1..Len(attempts) : attempts[i] \in filePaths}
  IN  IF hits = {} THEN NULL ELSE attempts[CHOOSE i \in hits : \A j \in hits : i <= j]

\* the diagnostic is pushed but the early return is missing: probing goes on
ResolveUncachedNoReturn(fromPath, importPath) ==
  LET importPathWithoutExt == StripSourceExt(importPath)
      viaAlias == AliasResolved(importPathWithoutExt)
  IN  IF ~Falsy(viaAlias) THEN [value |-> Probe(viaAlias), diag |-> NULL]
      ELSE IF StartsWith(importPathWithoutExt, ".")
           THEN LET candidatePath == RelativeCandidate(fromPath, importPathWithoutExt) IN
                [value |-> Probe(candidatePath),
                 diag |-> IF CrossesPackages(fromPath, candidatePath)
                          THEN InvalidImportMessage(fromPath, importPath) ELSE NULL]
           ELSE [value |-> NULL, diag |-> NULL]

\* a specifier that matches no alias is resolved against the importing file's directory
\* whether or not it starts with a dot
ResolveBareAsRelative(fromPath, importPath) ==
  LET importPathWithoutExt == StripSourceExt(importPath)
      viaAlias == AliasResolved(importPathWithoutExt)
      candidatePath == RelativeCandidate(fromPath, importPathWithoutExt)
  IN  IF ~Falsy(viaAlias) THEN [value |-> Probe(viaAlias), diag |-> NULL]
      ELSE IF CrossesPackages(fromPath, candidatePath)
      THEN [value |-> NULL, diag |-> InvalidImportMessage(fromPath, importPath)]
      ELSE [value |-> Probe(candidatePath), diag |-> NULL]

\* the body of resolve below the cache lookup: the value it caches and returns, and
\* the diagnostic it pushes (NULL: none)
ResolveUncached(fromPath, importPath) ==
  LET importPathWithoutExt == StripSourceExt(importPath)
      viaAlias == AliasResolved(importPathWithoutExt)
  IN  IF ~Falsy(viaAlias) THEN [value |-> Probe(viaAlias), diag |-> NULL]
      ELSE IF StartsWith(importPathWithoutExt, ".")
           THEN LET candidatePath == RelativeCandidate(fromPath, importPathWithoutExt) IN
                IF CrossesPackages(fromPath, candidatePath)
                THEN [value |-> NULL, diag |-> InvalidImportMessage(fromPath, importPath)]
                ELSE [value |-> Probe(candidatePath), diag |-> NULL]
           ELSE [value |-> NULL, diag |-> NULL]

\* the cache is never consulted: every call runs the resolution steps again
resolveWithoutMemo(fromPath, importPath, rs) ==
  LET r == ResolveUncached(fromPath, importPath) IN
  [value |-> r.value,
   cache |-> (ResolveKey(fromPath, importPath) :> r.value) @@ rs.cache,
   errors |-> IF r.diag = NULL THEN rs.errors ELSE Append(rs.errors, r.diag)]

\* PathResolver.resolve on resolver state rs = [cache, errors]: the returned value and
\* the state after the call
resolve(fromPath, importPath, rs) ==
  LET cacheKey == ResolveKey(fromPath, importPath) IN
  IF cacheKey \in DOMAIN rs.cache
  THEN [value |-> rs.cache[cacheKey], cache |-> rs.cache, errors |-> rs.errors]
  ELSE LET r == ResolveUncached(fromPath, importPath) IN
       [value |-> r.value,
        cache |-> (cacheKey :> r.value) @@ rs.cache,
        errors |-> IF r.diag = NULL THEN rs.errors ELSE Append(rs.errors, r.diag)]


(***************************************************************************)
(* Parsed files.  An AST is the document-order sequence of the nodes the   *)
(* visitors of the three passes react to.                                  *)
(***************************************************************************)
\* refPath.findParent(...): the nearest enclosing declaration of a reference
\* (type "none": no such parent; name "": the parent's id is no Identifier)
Enclosing(type, name) == [type |-> type, name |-> name]

NoParent == Enclosing("none", "")

\* import { imported as local } from ...; refs: one entry per binding.referencePaths element
ImportSpecifier(imported, refs) ==
  [type |-> "ImportSpecifier", imported |-> imported, local |-> imported, refs |-> refs]

\* import local from ...
ImportDefaultSpecifier(local, refs) ==
  [type |-> "ImportDefaultSpecifier", imported |-> "", local |-> local, refs |-> refs]

\* import * as local from ...
ImportNamespaceSpecifier(local, refs) ==
  [type |-> "ImportNamespaceSpecifier", imported |-> "", local |-> local, refs |-> refs]

ImportDeclaration(source, specifiers) ==
  [type |-> "ImportDeclaration", source |-> source, specifiers |-> specifiers]

\* export { local as exported } from source
ExportSpecifier(exported, local) == [exported |-> exported, local |-> local]

ExportNamedFrom(source, specifiers) ==
  [type |-> "ExportNamedDeclaration", source |-> source, specifiers |-> specifiers]

\* export * from source
ExportAllDeclaration(source) == [type |-> "ExportAllDeclaration", source |-> source]

\* function / class / enum / interface / type-alias declaration with an Identifier id
Declaration(type, name) == [type |-> type, name |-> name]

\* const a = ..., b = ...; topLevel: the parent is Program or ExportNamedDeclaration
VariableDeclaration(names, topLevel) ==
  [type |-> "VariableDeclaration", names |-> names, topLevel |-> topLevel]

ExportDefaultDeclaration == [type |-> "ExportDefaultDeclaration"]

FileEntry(path, ast) == [path |-> path, ast |-> ast]

DeclarationTypes ==
  {"FunctionDeclaration", "ClassDeclaration", "TSEnumDeclaration",
   "TSInterfaceDeclaration", "TSTypeAliasDeclaration"}

(***************************************************************************)
(* The file sets a build is run on.                                        *)
(***************************************************************************)
\* fN.ts: import { fM } from './fM'; export function fN() {...}, the reference to fM
\* sitting where `ref` says (inside fN, or at module top level)
ChainFile(n, m, ref) ==
  FileEntry(n \o ".ts",
    <<ImportDeclaration("./" \o m, <<ImportSpecifier(m, <<ref>>)>>),
      Declaration("FunctionDeclaration", n)>>)

\* f1 -> f2 -> f3 -> f4, every import used inside the importing file's own function
ChainInFunction ==
  [files |-> <<ChainFile("f1", "f2", Enclosing("FunctionDeclaration", "f1")),
               ChainFile("f2", "f3", Enclosing("FunctionDeclaration", "f2")),
               ChainFile("f3", "f4", Enclosing("FunctionDeclaration", "f3")),
               FileEntry("f4.ts", <<Declaration("FunctionDeclaration", "f4")>>)>>,
   aliases |-> <<>>]

\* f1 -> f2 -> f3 -> f4, every import used by a top-level statement only
ChainTopLevel ==
  [files |-> <<ChainFile("f1", "f2", NoParent),
               ChainFile("f2", "f3", NoParent),
               ChainFile("f3", "f4", NoParent),
               FileEntry("f4.ts", <<Declaration("FunctionDeclaration", "f4")>>)>>,
   aliases |-> <<>>]

\* two aliased packages; x.ts reaches into package b by a relative path, z.ts by the alias
CrossPackage ==
  [files |-> <<FileEntry("packages/a/src/x.ts",
                 <<ImportDeclaration("../../b/src/y", <<ImportSpecifier("y", <<NoParent>>)>>),
                   ImportDeclaration("../../b/src/y", <<ImportDefaultSpecifier("yDefault", <<NoParent>>)>>),
                   VariableDeclaration(<<"x">>, TRUE)>>),
               FileEntry("packages/a/src/z.ts",
                 <<ImportDeclaration("@b/y", <<ImportSpecifier("y", <<Enclosing("VariableDeclarator", "z")>>)>>),
                   VariableDeclaration(<<"z">>, TRUE)>>),
               FileEntry("packages/b/src/y.ts",
                 <<Declaration("FunctionDeclaration", "y")>>)>>,
   aliases |-> <<[name |-> "@a", target |-> "packages/a/src"],
                 [name |-> "@b", target |-> "packages/b/src"]>>]

\* origin.ts: export function Foo(){}; mid.ts: export { Bar } from './other';
\* export { Foo } from './origin'; consumer.ts: import { Foo } from './mid';
\* export class User { ... Foo ... }; Foo()
ReExportNamed ==
  [files |-> <<FileEntry("consumer.ts",
                 <<ImportDeclaration("./mid", <<ImportSpecifier("Foo", <<Enclosing("ClassDeclaration", "User"), NoParent>>)>>),
                   Declaration("ClassDeclaration", "User")>>),
               FileEntry("mid.ts",
                 <<ExportNamedFrom("./other", <<ExportSpecifier("Bar", "Bar")>>),
                   ExportNamedFrom("./origin", <<ExportSpecifier("Foo", "Foo")>>)>>),
               FileEntry("origin.ts",
                 <<Declaration("FunctionDeclaration", "Foo")>>)>>,
   aliases |-> <<>>]

\* consumer.ts -> barrel/index.ts (export * from './mid') -> barrel/mid.ts
\* (export { Foo } from '../origin') -> origin.ts; README.md is indexed but no source file;
\* setup.ts: import './origin'; import * as all from './origin'; function setup(){ all }
ReExportChain ==
  [files |-> <<FileEntry("README.md", <<>>),
               FileEntry("consumer.ts",
                 <<ImportDeclaration("./barrel", <<ImportSpecifier("Foo", <<Enclosing("FunctionDeclaration", "use")>>),
                                                   ImportNamespaceSpecifier("ns", <<NoParent>>)>>),
                   Declaration("FunctionDeclaration", "use")>>),
               FileEntry("barrel/index.ts", <<ExportAllDeclaration("./mid")>>),
               FileEntry("barrel/mid.ts",
                 <<ExportNamedFrom("../origin.ts", <<ExportSpecifier("Foo", "Foo")>>)>>),
               FileEntry("origin.ts",
                 <<Declaration("FunctionDeclaration", "Foo"), ExportDefaultDeclaration>>),
               FileEntry("setup.ts",
                 <<ImportDeclaration("./origin", <<>>),
                   ImportDeclaration("./origin", <<ImportNamespaceSpecifier("all", <<Enclosing("FunctionDeclaration", "setup")>>)>>),
                   Declaration("FunctionDeclaration", "setup")>>)>>,
   aliases |-> <<>>]

\* a.ts: export * from './b'; b.ts: export * from './a'; export const Real = 1;
\* c.ts: export { Ghost } from './d'; d.ts: export { Ghost } from './c';
\* consumer.ts: import React from 'react'; import { Ghost, Real } from './a';
\* import { Ghost as G2 } from './c'; const view = ... Real ...
CircularReExport ==
  [files |-> <<FileEntry("a.ts", <<ExportAllDeclaration("./b")>>),
               FileEntry("b.ts", <<ExportAllDeclaration("./a"), VariableDeclaration(<<"Real">>, TRUE)>>),
               FileEntry("c.ts", <<ExportNamedFrom("./d", <<ExportSpecifier("Ghost", "Ghost")>>)>>),
               FileEntry("d.ts", <<ExportNamedFrom("./c", <<ExportSpecifier("Ghost", "Ghost")>>)>>),
               FileEntry("consumer.ts",
                 <<ImportDeclaration("react", <<ImportDefaultSpecifier("React", <<NoParent>>)>>),
                   ImportDeclaration("./a", <<ImportSpecifier("Ghost", <<NoParent>>),
                                              ImportSpecifier("Real", <<Enclosing("VariableDeclarator", "view")>>)>>),
                   ImportDeclaration("./c", <<ImportSpecifier("Ghost", <<NoParent>>)>>),
                   VariableDeclaration(<<"view">>, TRUE)>>)>>,
   aliases |-> <<>>]

\* a three-file set: main.ts uses util.ts and helper.ts, helper.ts uses util.ts
ThreeFiles ==
  [files |-> <<FileEntry("main.ts",
                 <<ImportDeclaration("./util", <<ImportSpecifier("util", <<Enclosing("FunctionDeclaration", "main")>>)>>),
                   ImportDeclaration("./helper", <<ImportDefaultSpecifier("helper", <<Enclosing("FunctionDeclaration", "main")>>)>>),
                   Declaration("FunctionDeclaration", "main")>>),
               FileEntry("helper.ts",
                 <<ImportDeclaration("./util.ts", <<ImportSpecifier("util", <<NoParent>>)>>),
                   ExportDefaultDeclaration>>),
               FileEntry("util.ts",
                 <<Declaration("FunctionDeclaration", "util"),
                   VariableDeclaration(<<"local">>, FALSE)>>)>>,
   aliases |-> <<>>]

\* two directories each with its own util.ts, both imported as './util'
TwoDirs ==
  [files |-> <<FileEntry("app/main.ts",
                 <<ImportDeclaration("./util", <<ImportSpecifier("util", <<Enclosing("FunctionDeclaration", "main")>>)>>),
                   ImportDeclaration("../lib/main", <<ImportSpecifier("main", <<Enclosing("FunctionDeclaration", "main")>>)>>),
                   Declaration("FunctionDeclaration", "main")>>),
               FileEntry("app/util.ts", <<Declaration("FunctionDeclaration", "util")>>),
               FileEntry("lib/main.ts",
                 <<ImportDeclaration("./util", <<ImportSpecifier("util", <<NoParent>>)>>),
                   Declaration("FunctionDeclaration", "main")>>),
               FileEntry("lib/util.ts", <<Declaration("FunctionDeclaration", "util")>>)>>,
   aliases |-> <<>>]

\* a module specifier with several candidates in the file set: ./widget is widget.tsx
\* and widget/index.ts, ./data is the extensionless file data and data.ts; ./missing is
\* no file at all
ProbeOrder ==
  [files |-> <<FileEntry("app.ts",
                 <<ImportDeclaration("./widget", <<ImportSpecifier("Widget", <<Enclosing("FunctionDeclaration", "app")>>)>>),
                   ImportDeclaration("./data", <<ImportSpecifier("data", <<NoParent>>)>>),
                   ImportDeclaration("./missing", <<ImportSpecifier("gone", <<Enclosing("FunctionDeclaration", "app")>>)>>),
                   Declaration("FunctionDeclaration", "app")>>),
               FileEntry("ext.ts",
                 <<ImportDeclaration("data", <<ImportSpecifier("data", <<Enclosing("FunctionDeclaration", "ext")>>)>>),
                   ImportDeclaration("./missing", <<ImportSpecifier("Widget", <<NoParent>>)>>),
                   Declaration("FunctionDeclaration", "ext")>>),
               FileEntry("widget.tsx", <<Declaration("FunctionDeclaration", "Widget")>>),
               FileEntry("widget/index.ts", <<Declaration("ClassDeclaration", "Widget")>>),
               FileEntry("data", <<>>),
               FileEntry("data.ts", <<VariableDeclaration(<<"data">>, TRUE)>>)>>,
   aliases |-> <<>>]

\* two packages with aliases, one of them starting with a dot; main.ts and cli.ts reach
\* the shared package through alias specifiers with '.' and '..' segments
AliasPaths ==
  [files |-> <<FileEntry("packages/app/src/deep/main.ts",
                 <<ImportDeclaration("@shared/../lib/util", <<ImportSpecifier("util", <<Enclosing("FunctionDeclaration", "main")>>)>>),
                   ImportDeclaration(".shared/./types", <<ImportSpecifier("Shape", <<NoParent>>)>>),
                   Declaration("FunctionDeclaration", "main")>>),
               FileEntry("tools/cli.ts",
                 <<ImportDeclaration("@shared/../lib/util", <<ImportSpecifier("util", <<NoParent>>)>>)>>),
               FileEntry("packages/shared/lib/util.ts", <<VariableDeclaration(<<"util">>, TRUE)>>),
               FileEntry("packages/shared/src/types/index.ts",
                 <<Declaration("TSInterfaceDeclaration", "Shape")>>)>>,
   aliases |-> <<[name |-> "@app", target |-> "packages/app/src"],
                 [name |-> "@shared", target |-> "packages/shared/src"],
                 [name |-> ".shared", target |-> "packages/shared/src"]>>]

\* a.ts: export function Foo(){}; c.ts: export { Foo } from './a';
\* mid.ts: export * from './a'; export { Foo } from './c';
\* barrel.ts: export * from './a'; function Foo(){} (a local of the same name);
\* consumer.ts imports Foo from './mid' and from './barrel'
DiamondReExport ==
  [files |-> <<FileEntry("a.ts", <<Declaration("FunctionDeclaration", "Foo")>>),
               FileEntry("c.ts", <<ExportNamedFrom("./a", <<ExportSpecifier("Foo", "Foo")>>)>>),
               FileEntry("mid.ts",
                 <<ExportAllDeclaration("./a"),
                   ExportNamedFrom("./c", <<ExportSpecifier("Foo", "Foo")>>)>>),
               FileEntry("barrel.ts",
                 <<ExportAllDeclaration("./a"), Declaration("FunctionDeclaration", "Foo")>>),
               FileEntry("consumer.ts",
                 <<ImportDeclaration("./mid", <<ImportSpecifier("Foo", <<Enclosing("FunctionDeclaration", "use")>>)>>),
                   ImportDeclaration("./barrel", <<ImportSpecifier("Foo", <<NoParent>>)>>),
                   Declaration("FunctionDeclaration", "use")>>)>>,
   aliases |-> <<>>]

Projects ==
  {ChainInFunction, ChainTopLevel, CrossPackage, ReExportNamed, ReExportChain,
   CircularReExport, ThreeFiles, TwoDirs, ProbeOrder, AliasPaths, DiamondReExport}

(***************************************************************************)
(* Failures a build can meet.                                              *)
(***************************************************************************)
Fault(kind, path, at) == [kind |-> kind, path |-> path, at |-> at]

\* kind "parse":    file.getText() rejects or parser.parse throws for the file
\* kind "discover": traverse() in discoverSymbols throws on reaching node `at`
\* kind "link":     traverse() in linkDependencies throws on reaching node `at`
\* kind "binding":  scope.getBinding / findParent throws in the import visitor at node `at`
\* kind "export":   traverse() in resolveExport throws for the file
FaultsOf(project) ==
  UNION {
    LET f == project.files[i] IN
      {Fault("parse", f.path, 0), Fault("export", f.path, 0)}
        \cup {Fault(k, f.path, at) : k \in {"discover", "link"}, at \in 1..Len(f.ast)}
        \cup {Fault("binding", f.path, at) :
                at \in {j \in 1..Len(f.ast) : f.ast[j].type = "ImportDeclaration"}}
    : i \in {j \in 1..Len(project.files) : IsSourcePath(project.files[j].path)}}

\* the sets of at most n of the failures in S
RECURSIVE FaultSets(_, _)
FaultSets(S, n) ==
  IF n = 0 THEN {{}}
  ELSE FaultSets(S, n - 1) \cup {F \cup {f} : F \in FaultSets(S, n - 1), f \in S}

Throws(kind, path, at) == Fault(kind, path, at) \in faults

\* the AST buildAstCache stored for a path
AstOf(path) ==
  LET i == CHOOSE j \in 1..Len(fileIndex) : fileIndex[j].path = path IN fileIndex[i].ast

(***************************************************************************)
(* Pass 1: buildAstCache.                                                  *)
(***************************************************************************)
\* Array.from(fileIndex.values()).filter(f => /\.(ts|tsx|js|jsx)$/.test(f.path))
RECURSIVE FilterSource(_)
FilterSource(files) ==
  IF Len(files) = 0 THEN <<>>
  ELSE IF IsSourcePath(Head(files).path) THEN <<Head(files)>> \o FilterSource(Tail(files))
  ELSE FilterSource(Tail(files))

relevantFiles == FilterSource(fileIndex)

ParseFailedMessage(path) == "[SymbolGraph] Pass 1: Failed to parse " \o path \o ":"

\* one iteration of the loop of buildAstCache (one awaited getText and one parse); after
\* the last one runASTParser goes on to discoverSymbols
ParseFile ==
  /\ pc = "parse"
  /\ idx <= Len(relevantFiles)
  /\ LET file == relevantFiles[idx]
         cache == IF Throws("parse", file.path, 0) THEN astCache
                  ELSE Append(astCache, file.path)
     IN  /\ astCache' = cache
         /\ console' = IF Throws("parse", file.path, 0)
                       THEN Append(console, ParseFailedMessage(file.path))
                       ELSE console
         /\ IF idx < Len(relevantFiles)
            THEN pc' = "parse" /\ idx' = idx + 1
            ELSE pc' = (IF Len(cache) = 0 THEN "done" ELSE "discover") /\ idx' = 1
  /\ UNCHANGED <<storeVars, resolveCalls>>
  /\ UNCHANGED <<fileIndex, aliasMap, faults, graph, graphOrder, errors,
                 resolutionCache, exportCalls, traced>>

(***************************************************************************)
(* Pass 2: discoverSymbols.                                                *)
(***************************************************************************)
\* the graph as the pair the passes mutate: [nodes: id -> SymbolNode, order: ids]
SymbolNode(id, filePath, symbolName) ==
  [id |-> id, filePath |-> filePath, symbolName |-> symbolName,
   dependencies |-> <<>>, dependents |-> <<>>]

\* if (!graph.has(id)) graph.set(id, {...})
SetIfAbsent(g, id, filePath, symbolName) ==
  IF id \in DOMAIN g.nodes THEN g
  ELSE [nodes |-> (id :> SymbolNode(id, filePath, symbolName)) @@ g.nodes,
        order |-> Append(g.order, id)]

\* the file-level node created inside the try block, after the traversal started
EnsureFileNodeInTry(g, filePath) ==
  IF Throws("discover", filePath, 1) THEN g
  ELSE SetIfAbsent(g, filePath, filePath, "(file)")

\* the file-level node of discoverSymbols
EnsureFileNode(g, filePath) == SetIfAbsent(g, filePath, filePath, "(file)")

\* createNode(name)
createNode(g, filePath, name) == SetIfAbsent(g, filePath \o "#" \o name, filePath, name)

RECURSIVE CreateNodes(_, _, _)
CreateNodes(g, filePath, names) ==
  IF Len(names) = 0 THEN g
  ELSE CreateNodes(createNode(g, filePath, Head(names)), filePath, Tail(names))

\* what the discovery visitors do on one node
DiscoverNode(g, filePath, node) ==
  IF node.type \in DeclarationTypes THEN createNode(g, filePath, node.name)
  ELSE IF node.type = "VariableDeclaration"
       THEN IF node.topLevel THEN CreateNodes(g, filePath, node.names) ELSE g
  ELSE IF node.type = "ExportDefaultDeclaration" THEN createNode(g, filePath, "default")
  ELSE g

DiscoveryFailedMessage(filePath) ==
  "[Symbol Discovery Failed] " \o filePath \o ": traverse failed"

\* traverse(ast, {...}) of discoverSymbols from node i on: [g, threw]
RECURSIVE DiscoverFrom(_, _, _)
DiscoverFrom(g, filePath, i) ==
  IF i > Len(AstOf(filePath)) THEN [g |-> g, threw |-> FALSE]
  ELSE IF Throws("discover", filePath, i) THEN [g |-> g, threw |-> TRUE]
  ELSE DiscoverFrom(DiscoverNode(g, filePath, AstOf(filePath)[i]), filePath, i + 1)

(***************************************************************************)
(* resolveExport.                                                          *)
(***************************************************************************)
\* the state one resolveExport call chain threads through: the resolver's cache, the
\* diagnostics, the visited set, the (file, symbol) pairs entered past the visited guard
\* (in order), how often the guard turned a call away, and whether an exception is
\* propagating (threw; overflow: the call stack ran out)
ExportState(cache, errs) ==
  [cache |-> cache, errors |-> errs, visited |-> {}, entered |-> <<>>, blocked |-> 0,
   threw |-> FALSE, overflow |-> FALSE]

\* `${targetPath}#${symbolName}`
SymbolId(targetPath, symbolName) == targetPath \o "#" \o symbolName

\* the visited set is never consulted
NeverVisited(cacheKey, visited) == FALSE

\* if (visited.has(cacheKey)) return null
AlreadyVisited(cacheKey, visited) == cacheKey \in visited

\* the second traverse of resolveExport: is symbolName declared in the file
isDeclaredLocally(targetPath, symbolName) ==
  \E i \in 1..Len(AstOf(targetPath)) :
    LET node == AstOf(targetPath)[i] IN
      \/ node.type \in DeclarationTypes /\ node.name = symbolName
      \/ node.type = "VariableDeclaration" /\ symbolName \in Range(node.names)
      \/ node.type = "ExportDefaultDeclaration" /\ symbolName = "default"

WithResolved(st, r) == [st EXCEPT !.cache = r.cache, !.errors = r.errors]

\* visited.add(cacheKey), past the visited guard
Entered(st, targetPath, symbolName) ==
  [st EXCEPT !.visited = @ \cup {SymbolId(targetPath, symbolName)},
             !.entered = Append(@, [targetPath |-> targetPath, symbolName |-> symbolName])]

\* a matching specifier: foundOrigin = resolveExport(...) (null included); path.stop()
NamedOrigin(r) == [origin |-> r.origin, stopped |-> TRUE, st |-> r.st]

\* a wildcard: if (potentialOrigin) foundOrigin = potentialOrigin; the traversal goes on
WildcardOrigin(w, potentialOrigin) ==
  [origin |-> IF Falsy(potentialOrigin.origin) THEN w.origin ELSE potentialOrigin.origin,
   stopped |-> FALSE,
   st |-> potentialOrigin.st]

\* the tail of resolveExport: if (foundOrigin) return it; else the local declarations
OriginOrLocal(targetPath, symbolName, w) ==
  IF w.st.threw THEN [origin |-> NULL, st |-> w.st]
  ELSE IF ~Falsy(w.origin) THEN [origin |-> w.origin, st |-> w.st]
  ELSE IF isDeclaredLocally(targetPath, symbolName)
       THEN [origin |-> SymbolId(targetPath, symbolName), st |-> w.st]
       ELSE [origin |-> NULL, st |-> w.st]

RECURSIVE resolveExport(_, _, _, _)
RECURSIVE ExportSpecifiers(_, _, _, _, _, _)
RECURSIVE ReExportVia(_, _, _, _, _)
RECURSIVE ReExportNode(_, _, _, _, _)
RECURSIVE ReExportsFrom(_, _, _, _, _)

\* the specifier loop of the ExportNamedDeclaration visitor, from specifier j on:
\* every specifier exporting symbolName overwrites foundOrigin and stops the traversal
ExportSpecifiers(sourcePath, symbolName, specifiers, j, w, fuel) ==
  IF j > Len(specifiers) \/ w.st.threw THEN w
  ELSE ExportSpecifiers(sourcePath, symbolName, specifiers, j + 1,
         IF specifiers[j].exported = symbolName
         THEN NamedOrigin(resolveExport(sourcePath, specifiers[j].local, w.st, fuel))
         ELSE w,
         fuel)

\* a re-export statement whose source r = pathResolver.resolve(targetPath, source) is
\* known: nothing if it is unresolved, else the specifiers or the wildcard
ReExportVia(symbolName, node, w, r, fuel) ==
  IF Falsy(r.value) THEN [w EXCEPT !.st = WithResolved(w.st, r)]
  ELSE IF node.type = "ExportNamedDeclaration"
  THEN ExportSpecifiers(r.value, symbolName, node.specifiers, 1,
                        [w EXCEPT !.st = WithResolved(w.st, r)], fuel)
  ELSE WildcardOrigin(w, resolveExport(r.value, symbolName, WithResolved(w.st, r), fuel))

\* the visitors of the first traverse on one node
ReExportNode(targetPath, symbolName, node, w, fuel) ==
  IF \/ node.type = "ExportNamedDeclaration" /\ node.source # NULL
     \/ node.type = "ExportAllDeclaration"
  THEN ReExportVia(symbolName, node, w, resolve(targetPath, node.source, w.st), fuel)
  ELSE w

\* re-export statements are not looked at: only local declarations count
ReExportsIgnored(targetPath, symbolName, i, w, fuel) == w

\* the first traverse of resolveExport from node i on; w = [origin (foundOrigin),
\* stopped (path.stop() was called), st]
ReExportsFrom(targetPath, symbolName, i, w, fuel) ==
  IF i > Len(AstOf(targetPath)) \/ w.stopped \/ w.st.threw THEN w
  ELSE ReExportsFrom(targetPath, symbolName, i + 1,
         ReExportNode(targetPath, symbolName, AstOf(targetPath)[i], w, fuel), fuel)

\* resolveExport(targetPath, symbolName, astCache, pathResolver, errors, visited):
\* [origin, st]; fuel is the call depth left
resolveExport(targetPath, symbolName, st, fuel) ==
  IF fuel = 0 THEN [origin |-> NULL, st |-> [st EXCEPT !.threw = TRUE, !.overflow = TRUE]]
  ELSE IF AlreadyVisited(SymbolId(targetPath, symbolName), st.visited)
  THEN [origin |-> NULL, st |-> [st EXCEPT !.blocked = @ + 1]]
  ELSE IF targetPath \notin Range(astCache)
  THEN [origin |-> NULL, st |-> Entered(st, targetPath, symbolName)]
  ELSE IF Throws("export", targetPath, 0)
  THEN [origin |-> NULL, st |-> [Entered(st, targetPath, symbolName) EXCEPT !.threw = TRUE]]
  ELSE OriginOrLocal(targetPath, symbolName,
         ReExportsFrom(targetPath, symbolName, 1,
                       [origin |-> NULL, stopped |-> FALSE,
                        st |-> Entered(st, targetPath, symbolName)], fuel - 1))

(***************************************************************************)
(* Pass 3: linkDependencies.                                               *)
(***************************************************************************)
\* the dependency is recorded, the reciprocal dependent is forgotten
AddEdgeOneSided(nodes, fromId, toId) ==
  [nodes EXCEPT ![fromId].dependencies = SetAdd(@, toId)]

\* from.dependencies.add(toId); to.dependents.add(fromId)
AddEdge(nodes, fromId, toId) ==
  LET n1 == [nodes EXCEPT ![fromId].dependencies = SetAdd(@, toId)]
  IN  [n1 EXCEPT ![toId].dependents = SetAdd(@, fromId)]

\* the importer symbol a reference is attributed to: `${filePath}#${name}` of the
\* nearest enclosing declarator / function / class with an Identifier id, or null
ImporterIdOf(filePath, importerScope) ==
  IF importerScope.type \in {"VariableDeclarator", "FunctionDeclaration", "ClassDeclaration"}
     /\ importerScope.name # ""
  THEN SymbolId(filePath, importerScope.name)
  ELSE NULL

\* the graph.has(importerId) test is dropped: a missing importer symbol gets a node
RECURSIVE LinkReferencesCreating(_, _, _, _)
LinkReferencesCreating(nodes, filePath, refs, exporterId) ==
  IF Len(refs) = 0 THEN nodes
  ELSE LET importerId == ImporterIdOf(filePath, Head(refs)) IN
       LinkReferencesCreating(
         IF importerId # NULL
         THEN AddEdge(SetIfAbsent([nodes |-> nodes, order |-> <<>>], importerId, filePath,
                                  Head(refs).name).nodes,
                      importerId, exporterId)
         ELSE nodes,
         filePath, Tail(refs), exporterId)

\* the loop over binding.referencePaths
RECURSIVE LinkReferences(_, _, _, _)
LinkReferences(nodes, filePath, refs, exporterId) ==
  IF Len(refs) = 0 THEN nodes
  ELSE LET importerId == ImporterIdOf(filePath, Head(refs)) IN
       LinkReferences(
         IF importerId # NULL /\ importerId \in DOMAIN nodes
         THEN AddEdge(nodes, importerId, exporterId) ELSE nodes,
         filePath, Tail(refs), exporterId)

\* a namespace import is taken for an import of the default export
ImportedNameOfAny(specifier) ==
  IF specifier.type = "ImportSpecifier" THEN specifier.imported ELSE "default"

\* importedName of a specifier (null for a namespace import)
ImportedName(specifier) ==
  IF specifier.type = "ImportSpecifier" THEN specifier.imported
  ELSE IF specifier.type = "ImportDefaultSpecifier" THEN "default"
  ELSE NULL

\* the record kept of one top-level resolveExport call
ExportCall(filePath, sourcePath, importedName, r) ==
  [importer |-> filePath, target |-> sourcePath, name |-> importedName,
   origin |-> r.origin, entered |-> r.st.entered, blocked |-> r.st.blocked,
   overflow |-> r.st.overflow]

\* only the references attributed to an enclosing symbol are linked: no file-level edge
LinkResolvedSymbolOnly(ls, filePath, i, sourcePath, specifier, r) ==
  LET ls1 == [ls EXCEPT !.cache = r.st.cache, !.errors = r.st.errors,
                        !.calls = Append(@, ExportCall(filePath, sourcePath,
                                                       ImportedName(specifier), r)),
                        !.threw = r.st.threw]
  IN  IF r.st.threw \/ Falsy(r.origin) \/ r.origin \notin DOMAIN ls.nodes THEN ls1
      ELSE [ls1 EXCEPT !.nodes = LinkReferences(ls.nodes, filePath, specifier.refs, r.origin)]

\* the graph.has(exporterId) test is dropped: the dependency on a missing node is added
\* before exporterNode.dependents throws
LinkResolvedUnchecked(ls, filePath, i, sourcePath, specifier, r) ==
  LET ls1 == [ls EXCEPT !.cache = r.st.cache, !.errors = r.st.errors,
                        !.calls = Append(@, ExportCall(filePath, sourcePath,
                                                       ImportedName(specifier), r)),
                        !.threw = r.st.threw]
  IN  IF r.st.threw \/ Falsy(r.origin) \/ filePath \notin DOMAIN ls.nodes THEN ls1
      ELSE IF r.origin \notin DOMAIN ls.nodes
      THEN [ls1 EXCEPT !.nodes = AddEdgeOneSided(ls.nodes, filePath, r.origin), !.threw = TRUE]
      ELSE [ls1 EXCEPT !.nodes =
              LinkReferences(AddEdge(ls.nodes, filePath, r.origin),
                             filePath, specifier.refs, r.origin)]

\* one specifier whose export r = resolveExport(sourcePath, importedName, ...) is known:
\* the file-level edge, then the symbol-level edges of its references;
\* ls = [nodes, cache, errors, calls, threw]
LinkResolved(ls, filePath, i, sourcePath, specifier, r) ==
  LET ls1 == [ls EXCEPT !.cache = r.st.cache, !.errors = r.st.errors,
                        !.calls = Append(@, ExportCall(filePath, sourcePath,
                                                       ImportedName(specifier), r)),
                        !.threw = r.st.threw]
  IN  IF r.st.threw THEN ls1
      ELSE IF ~Falsy(r.origin) /\ r.origin \in DOMAIN ls.nodes
      THEN IF filePath \notin DOMAIN ls.nodes
           THEN [ls1 EXCEPT !.threw = TRUE]   \* graph.get(filePath)! is undefined: TypeError
           ELSE IF Throws("binding", filePath, i)
           THEN [ls1 EXCEPT !.nodes = AddEdge(ls.nodes, filePath, r.origin), !.threw = TRUE]
           ELSE [ls1 EXCEPT !.nodes =
                   LinkReferences(AddEdge(ls.nodes, filePath, r.origin),
                                  filePath, specifier.refs, r.origin)]
      ELSE ls1

\* the body of the specifier loop: if (!importedName) continue
LinkSpecifier(ls, filePath, i, sourcePath, specifier) ==
  IF Falsy(ImportedName(specifier)) THEN ls
  ELSE LinkResolved(ls, filePath, i, sourcePath, specifier,
         resolveExport(sourcePath, ImportedName(specifier),
                       ExportState(ls.cache, ls.errors), MaxResolveDepth))

\* the specifier loop of the ImportDeclaration visitor, from specifier j on
RECURSIVE LinkSpecifiers(_, _, _, _, _)
LinkSpecifiers(ls, filePath, i, sourcePath, j) ==
  IF j > Len(AstOf(filePath)[i].specifiers) \/ ls.threw THEN ls
  ELSE LinkSpecifiers(
         LinkSpecifier(ls, filePath, i, sourcePath, AstOf(filePath)[i].specifiers[j]),
         filePath, i, sourcePath, j + 1)

\* an import whose source r = pathResolver.resolve(filePath, source) is known:
\* if (!sourcePath) return
LinkImport(ls, filePath, i, r) ==
  IF Falsy(r.value) THEN [ls EXCEPT !.cache = r.cache, !.errors = r.errors]
  ELSE LinkSpecifiers([ls EXCEPT !.cache = r.cache, !.errors = r.errors],
                      filePath, i, r.value, 1)

\* the ImportDeclaration visitor on node i
LinkNode(ls, filePath, i) ==
  IF Throws("link", filePath, i) THEN [ls EXCEPT !.threw = TRUE]
  ELSE IF AstOf(filePath)[i].type = "ImportDeclaration"
  THEN LinkImport(ls, filePath, i, resolve(filePath, AstOf(filePath)[i].source, ls))
  ELSE ls

\* traverse(ast, {ImportDeclaration}) of linkDependencies from node i on
RECURSIVE LinkFrom(_, _, _)
LinkFrom(ls, filePath, i) ==
  IF i > Len(AstOf(filePath)) \/ ls.threw THEN ls
  ELSE LinkFrom(LinkNode(ls, filePath, i), filePath, i + 1)

LinkerWarning(filePath) == "[Linker] Failed to traverse " \o filePath \o ": traverse failed"

LinkingFailedMessage(filePath) ==
  "[Dependency Linking Failed] " \o filePath \o ": traverse failed"

\* the try/catch encloses the whole loop: the first traversal that throws ends the pass
LinkFileAborting ==
  /\ pc = "link"
  /\ idx <= Len(astCache)
  /\ LET filePath == astCache[idx]
         ls == LinkFrom([nodes |-> graph, cache |-> resolutionCache, errors |-> errors,
                         calls |-> exportCalls, threw |-> FALSE], filePath, 1)
     IN  /\ graph' = ls.nodes
         /\ resolutionCache' = ls.cache
         /\ exportCalls' = ls.calls
         /\ errors' = IF ls.threw THEN Append(ls.errors, LinkingFailedMessage(filePath))
                      ELSE ls.errors
         /\ console' = IF ls.threw THEN Append(console, LinkerWarning(filePath)) ELSE console
         /\ IF idx < Len(astCache) /\ ~ls.threw
            THEN pc' = "link" /\ idx' = idx + 1
            ELSE pc' = "done" /\ idx' = 1
  /\ UNCHANGED <<storeVars, resolveCalls>>
  /\ UNCHANGED <<fileIndex, aliasMap, faults, astCache, graphOrder, traced>>

\* discovery and linking are fused: each file is linked as soon as it is discovered
DiscoverFileFused ==
  /\ pc = "discover"
  /\ idx <= Len(astCache)
  /\ LET filePath == astCache[idx]
         d == DiscoverFrom(EnsureFileNode([nodes |-> graph, order |-> graphOrder], filePath),
                           filePath, 1)
         ls == LinkFrom([nodes |-> d.g.nodes, cache |-> resolutionCache, errors |-> errors,
                         calls |-> exportCalls, threw |-> FALSE], filePath, 1)
     IN  /\ graph' = ls.nodes
         /\ graphOrder' = d.g.order
         /\ resolutionCache' = ls.cache
         /\ exportCalls' = ls.calls
         /\ errors' = ls.errors
  /\ IF idx < Len(astCache)
     THEN pc' = "discover" /\ idx' = idx + 1
     ELSE pc' = "done" /\ idx' = 1
  /\ UNCHANGED <<storeVars, resolveCalls>>
  /\ UNCHANGED <<fileIndex, aliasMap, faults, astCache, console, traced>>

\* one iteration of the loop of discoverSymbols
DiscoverFile ==
  /\ pc = "discover"
  /\ idx <= Len(astCache)
  /\ LET filePath == astCache[idx]
         d == DiscoverFrom(EnsureFileNode([nodes |-> graph, order |-> graphOrder], filePath),
                           filePath, 1)
     IN  /\ graph' = d.g.nodes
         /\ graphOrder' = d.g.order
         /\ errors' = IF d.threw THEN Append(errors, DiscoveryFailedMessage(filePath))
                      ELSE errors
  /\ IF idx < Len(astCache)
     THEN pc' = "discover" /\ idx' = idx + 1
     ELSE pc' = "link" /\ idx' = 1
  /\ UNCHANGED <<storeVars, resolveCalls>>
  /\ UNCHANGED <<fileIndex, aliasMap, faults, astCache, console,
                 resolutionCache, exportCalls, traced>>

\* one iteration of the loop of linkDependencies; after the last one runASTParser and
\* buildSymbolGraph return
LinkFile ==
  /\ pc = "link"
  /\ idx <= Len(astCache)
  /\ LET filePath == astCache[idx]
         ls == LinkFrom([nodes |-> graph, cache |-> resolutionCache, errors |-> errors,
                         calls |-> exportCalls, threw |-> FALSE], filePath, 1)
     IN  /\ graph' = ls.nodes
         /\ resolutionCache' = ls.cache
         /\ exportCalls' = ls.calls
         /\ errors' = IF ls.threw THEN Append(ls.errors, LinkingFailedMessage(filePath))
                      ELSE ls.errors
         /\ console' = IF ls.threw THEN Append(console, LinkerWarning(filePath)) ELSE console
  /\ IF idx < Len(astCache)
     THEN pc' = "link" /\ idx' = idx + 1
     ELSE pc' = "done" /\ idx' = 1
  /\ UNCHANGED <<storeVars, resolveCalls>>
  /\ UNCHANGED <<fileIndex, aliasMap, faults, astCache, graphOrder, traced>>

(***************************************************************************)
(* traceSymbolGraph.                                                       *)
(***************************************************************************)
Modes == {"dependencies", "dependents", "both"}

\* graph.forEach(node => { if (node.filePath === startId) startNodes.add(node) })
RECURSIVE NodesOfFile(_, _, _)
NodesOfFile(nodes, order, startId) ==
  IF Len(order) = 0 THEN <<>>
  ELSE IF nodes[Head(order)].filePath = startId
       THEN <<Head(order)>> \o NodesOfFile(nodes, Tail(order), startId)
       ELSE NodesOfFile(nodes, Tail(order), startId)

\* the start set: the IDs of startNodes, in insertion order
StartNodes(nodes, order, startId) ==
  IF Includes(startId, "#")
  THEN IF startId \in DOMAIN nodes THEN <<startId>> ELSE <<>>
  ELSE NodesOfFile(nodes, order, startId)

RECURSIVE AddAll(_, _)
AddAll(q, xs) == IF Len(xs) = 0 THEN q ELSE AddAll(SetAdd(q, Head(xs)), Tail(xs))

\* the two mode tests are one if/else: every mode but 'dependencies' gathers the
\* dependents only, so 'both' no longer follows the dependencies
NextNodeIdsExclusive(node, mode) ==
  IF mode = "dependencies" THEN AddAll(<<>>, node.dependencies)
  ELSE AddAll(<<>>, node.dependents)

\* nextNodeIds of a dequeued node
NextNodeIds(node, mode) ==
  AddAll(IF mode \in {"dependencies", "both"} THEN AddAll(<<>>, node.dependencies) ELSE <<>>,
         IF mode \in {"dependents", "both"} THEN node.dependents ELSE <<>>)

\* for (const nextId of nextNodeIds) {...}; bfs = [queue, visited, result]
RECURSIVE VisitNext(_, _, _, _)
VisitNext(nodes, bfs, nextIds, hops) ==
  IF Len(nextIds) = 0 THEN bfs
  ELSE LET nextId == Head(nextIds) IN
       VisitNext(nodes,
         IF nextId \notin bfs.visited /\ nextId \in DOMAIN nodes
         THEN [queue |-> Append(bfs.queue, [id |-> nextId, hops |-> hops + 1]),
               visited |-> bfs.visited \cup {nextId},
               result |-> SetAdd(bfs.result, nodes[nextId].filePath)]
         ELSE bfs,
         Tail(nextIds), hops)

\* nodes at the hop limit are still expanded: if (hops > maxHops) continue
HopLimitExceeded(hops, maxHops) == hops > maxHops

\* if (hops >= maxHops) continue
HopLimitReached(hops, maxHops) == hops >= maxHops

\* while (head < queue.length) {...}
RECURSIVE TraceLoop(_, _, _, _, _)
TraceLoop(nodes, bfs, head, mode, maxHops) ==
  IF head > Len(bfs.queue) THEN bfs
  ELSE LET cur == bfs.queue[head] IN
       IF HopLimitReached(cur.hops, maxHops) THEN TraceLoop(nodes, bfs, head + 1, mode, maxHops)
       ELSE TraceLoop(nodes,
                      VisitNext(nodes, bfs, NextNodeIds(nodes[cur.id], mode), cur.hops),
                      head + 1, mode, maxHops)

RECURSIVE FilePathsOf(_, _)
FilePathsOf(nodes, ids) ==
  IF Len(ids) = 0 THEN <<>>
  ELSE AddAll(<<nodes[Head(ids)].filePath>>, FilePathsOf(nodes, Tail(ids)))

\* the start nodes are queued and marked visited, their file paths are not collected
SeedTraceWithoutPaths(nodes, startNodes) ==
  [queue |-> [i \in 1..Len(startNodes) |-> [id |-> startNodes[i], hops |-> 0]],
   visited |-> Range(startNodes),
   result |-> <<>>]

\* the seeded search state: every start node queued at hop 0
SeedTrace(nodes, startNodes) ==
  [queue |-> [i \in 1..Len(startNodes) |-> [id |-> startNodes[i], hops |-> 0]],
   visited |-> Range(startNodes),
   result |-> FilePathsOf(nodes, startNodes)]

\* the search state (queue, visited, resultFilePaths) when the while loop ends
TraceSearch(nodes, order, startId, mode, maxHops) ==
  TraceLoop(nodes, SeedTrace(nodes, StartNodes(nodes, order, startId)), 1, mode, maxHops)

\* the result set is seeded with startId itself before the start nodes are looked up
traceSeedingStartId(nodes, order, startId, mode, maxHops) ==
  LET startNodes == StartNodes(nodes, order, startId) IN
  TraceLoop(nodes,
            [queue |-> [i \in 1..Len(startNodes) |-> [id |-> startNodes[i], hops |-> 0]],
             visited |-> Range(startNodes),
             result |-> AddAll(<<startId>>, FilePathsOf(nodes, startNodes))],
            1, mode, maxHops).result

\* traceSymbolGraph(graph, startId, mode, maxHops): the returned array
traceSymbolGraph(nodes, order, startId, mode, maxHops) ==
  LET startNodes == StartNodes(nodes, order, startId) IN
  IF Len(startNodes) = 0 THEN <<>>
  ELSE TraceSearch(nodes, order, startId, mode, maxHops).result

\* the start identifiers a caller asks for: indexed paths, node IDs, and unknown ones
TraceStarts ==
  filePaths \cup DOMAIN graph
    \cup {"nonexistent.ts", "nonexistent.ts#ghost", SymbolId(fileIndex[1].path, "ghost")}

NoTrace == [called |-> FALSE]

\* the record of a call: its arguments, the returned array and the queue it built
TraceCall(startId, mode, maxHops) ==
  [called |-> TRUE, startId |-> startId, mode |-> mode, maxHops |-> maxHops,
   result |-> traceSymbolGraph(graph, graphOrder, startId, mode, maxHops),
   queue |-> TraceSearch(graph, graphOrder, startId, mode, maxHops).queue]

\* nextNodeIds is the node's own dependencies set instead of a fresh one: the dependents
\* gathered for the walk are added to the dependencies of every node that is expanded
TraceSharingNeighbourSets ==
  /\ pc = "done"
  /\ ~traced.called
  /\ \E startId \in TraceStarts, mode \in Modes, maxHops \in 0..MaxHops :
       LET call == TraceCall(startId, mode, maxHops)
           expanded == {call.queue[i].id : i \in {j \in 1..Len(call.queue) :
                                                    call.queue[j].hops < maxHops}}
       IN  /\ traced' = call
           /\ graph' = [id \in DOMAIN graph |->
                          IF id \in expanded /\ mode # "dependencies"
                          THEN [graph[id] EXCEPT !.dependencies = AddAll(@, graph[id].dependents)]
                          ELSE graph[id]]
  /\ UNCHANGED <<storeVars, resolveCalls>>
  /\ UNCHANGED <<fileIndex, aliasMap, faults, pc, idx, astCache, graphOrder,
                 errors, console, resolutionCache, exportCalls>>

\* a caller traces the finished graph; one request is followed per build, since a
\* trace neither reads nor writes anything an earlier trace left behind
Trace ==
  /\ pc = "done"
  /\ ~traced.called
  /\ \E startId \in TraceStarts, mode \in Modes, maxHops \in 0..MaxHops :
       traced' = TraceCall(startId, mode, maxHops)
  /\ UNCHANGED <<storeVars, resolveCalls>>
  /\ UNCHANGED <<fileIndex, aliasMap, faults, pc, idx, astCache, graph, graphOrder,
                 errors, console, resolutionCache, exportCalls>>

(***************************************************************************)
(* The store: the loader slice, the graph slice and the generate request   *)
(* of the query panel.  A build is followed from its invocation to the     *)
(* set() call of the ensureSymbolGraph that awaits it; between two awaits  *)
(* a call runs without interruption.                                       *)
(***************************************************************************)
FatalMessage == "FATAL: Graph generation failed. See console for details."

\* the file sources an adapter can be: what getFileList yields (or that it throws), and
\* what buildSymbolGraph does with the index made of it (the diagnostics it fills in, or
\* that it rejects)
Sources ==
  { [name |-> "clean.zip", listing |-> <<"main.ts", "README.md">>, throws |-> FALSE,
     diagnostics |-> <<>>, rejects |-> FALSE],
    [name |-> "noisy.zip", listing |-> <<"a.ts", "b.tsx">>, throws |-> FALSE,
     diagnostics |-> <<"[Dependency Linking Failed] a.ts: traverse failed">>,
     rejects |-> FALSE],
    [name |-> "fatal.zip", listing |-> <<"x.ts">>, throws |-> FALSE,
     diagnostics |-> <<>>, rejects |-> TRUE],
    [name |-> "gone.zip", listing |-> <<>>, throws |-> TRUE,
     diagnostics |-> <<>>, rejects |-> FALSE] }

SourceNamed(name) == CHOOSE src \in Sources : src.name = name

\* the files of an index whose text a build fetches, one await each
FetchCount(name) ==
  Cardinality({i \in 1..Len(SourceNamed(name).listing) :
                 IsSourcePath(SourceNamed(name).listing[i])})

\* initialState of the store; a file index is named by the source it was listed from
initialState ==
  [status |-> "idle", error |-> NULL, fileIndex |-> NULL, symbolGraph |-> NULL,
   graphStatus |-> "idle", resolutionErrors |-> <<>>, activeAdapter |-> NULL]

\* if (graphStatus === 'building' || (graphStatus === 'ready' && get().symbolGraph)
\*     || !fileIndex) return
EnsureShortCircuits(s) ==
  \/ s.graphStatus = "building"
  \/ s.graphStatus = "ready" /\ s.symbolGraph # NULL
  \/ s.fileIndex = NULL

\* ensureSymbolGraph up to its await: the store and the builds after it, and the build
\* it started (0: none)
ensureSymbolGraph(s, bs) ==
  IF EnsureShortCircuits(s) THEN [store |-> s, builds |-> bs, started |-> 0]
  ELSE [store |-> [s EXCEPT !.graphStatus = "building", !.resolutionErrors = <<>>],
        builds |-> Append(bs, [fileIndex |-> s.fileIndex, fetched |-> 0, state |-> "running"]),
        started |-> Len(bs) + 1]

\* catch (e): set({graphStatus: 'error', resolutionErrors: ['FATAL: ...']})
EnsureCatch(s) == [s EXCEPT !.graphStatus = "error", !.resolutionErrors = <<FatalMessage>>]

\* set({symbolGraph: graph, graphStatus: 'ready', resolutionErrors: errors}); a graph is
\* named by the index it was built from
EnsureDone(s, index) ==
  [s EXCEPT !.symbolGraph = index, !.graphStatus = "ready",
            !.resolutionErrors = SourceNamed(index).diagnostics]

\* the builds that have been invoked and have not settled
InFlight == {b \in 1..Len(builds) : builds[b].state = "running"}

\* setFileSource up to its first await
SetFileSource ==
  /\ triggers < MaxTriggers
  /\ \E src \in Sources :
       /\ store' = [store EXCEPT !.status = "loading", !.error = NULL,
                                 !.activeAdapter = src.name]
       /\ loads' = Append(loads, [source |-> src.name, stage |-> "getConfig"])
  /\ triggers' = triggers + 1
  /\ UNCHANGED <<builds, generates>>
  /\ UNCHANGED builderVars

\* await source.getConfig() returns
GetConfig ==
  /\ \E i \in 1..Len(loads) :
       /\ loads[i].stage = "getConfig"
       /\ loads' = [loads EXCEPT ![i].stage = "getFileList"]
  /\ UNCHANGED <<store, builds, generates, triggers>>
  /\ UNCHANGED builderVars

\* await source.getFileList() returns: the index is stored and ensureSymbolGraph called
GetFileList ==
  /\ \E i \in 1..Len(loads) :
       /\ loads[i].stage = "getFileList"
       /\ ~SourceNamed(loads[i].source).throws
       /\ LET r == ensureSymbolGraph(
                     [store EXCEPT !.fileIndex = loads[i].source, !.status = "ready",
                                   !.symbolGraph = NULL, !.graphStatus = "idle",
                                   !.resolutionErrors = <<>>],
                     builds)
          IN  store' = r.store /\ builds' = r.builds
       /\ loads' = [loads EXCEPT ![i].stage = "done"]
  /\ UNCHANGED <<generates, triggers>>
  /\ UNCHANGED builderVars

\* await source.getFileList() throws: catch (error) of setFileSource
LoadFails ==
  /\ \E i \in 1..Len(loads) :
       /\ loads[i].stage = "getFileList"
       /\ SourceNamed(loads[i].source).throws
       /\ store' = [store EXCEPT !.status = "error", !.error = "Unknown loading error"]
       /\ loads' = [loads EXCEPT ![i].stage = "failed"]
  /\ UNCHANGED <<builds, generates, triggers>>
  /\ UNCHANGED builderVars

\* reset()
Reset ==
  /\ triggers < MaxTriggers
  /\ store' = [store EXCEPT !.status = "idle", !.error = NULL, !.fileIndex = NULL,
                            !.symbolGraph = NULL, !.activeAdapter = NULL]
  /\ triggers' = triggers + 1
  /\ UNCHANGED <<loads, builds, generates>>
  /\ UNCHANGED builderVars

\* ensureSymbolGraph() called on its own
EnsureSymbolGraph ==
  /\ triggers < MaxTriggers
  /\ LET r == ensureSymbolGraph(store, builds)
     IN  store' = r.store /\ builds' = r.builds
  /\ triggers' = triggers + 1
  /\ UNCHANGED <<loads, generates>>
  /\ UNCHANGED builderVars

\* a running build gets the text of its next file: await file.getText() in buildAstCache
FetchText ==
  /\ \E b \in InFlight :
       /\ ~SourceNamed(builds[b].fileIndex).rejects
       /\ builds[b].fetched < FetchCount(builds[b].fileIndex)
       /\ builds' = [builds EXCEPT ![b].fetched = @ + 1]
  /\ UNCHANGED <<store, loads, generates, triggers>>
  /\ UNCHANGED builderVars

\* a build has fetched its last file: passes 2 and 3 run, buildSymbolGraph resolves and
\* the ensureSymbolGraph awaiting it stores the graph
BuildResolves ==
  /\ \E b \in InFlight :
       /\ ~SourceNamed(builds[b].fileIndex).rejects
       /\ builds[b].fetched = FetchCount(builds[b].fileIndex)
       /\ builds' = [builds EXCEPT ![b].state = "resolved"]
       /\ store' = EnsureDone(store, builds[b].fileIndex)
  /\ UNCHANGED <<loads, generates, triggers>>
  /\ UNCHANGED builderVars

\* buildSymbolGraph rejects and the ensureSymbolGraph awaiting it catches
BuildRejects ==
  /\ \E b \in InFlight :
       /\ SourceNamed(builds[b].fileIndex).rejects
       /\ builds' = [builds EXCEPT ![b].state = "rejected"]
       /\ store' = EnsureCatch(store)
  /\ UNCHANGED <<loads, generates, triggers>>
  /\ UNCHANGED builderVars

\* a generate request as handleGenerate leaves it at its await (or at its return): the
\* state it is in, the error it set, the build its ensureSymbolGraph started, the
\* graphStatus it was called in, the index its seed and wildcard paths are taken from
GenerateRequest(state, error, awaits, traceDepth) ==
  [state |-> state, error |-> error, awaits |-> awaits, calledIn |-> store.graphStatus,
   seeds |-> store.fileIndex, traceDepth |-> traceDepth, traced |-> FALSE, graph |-> NULL]

\* handleGenerate(mode) up to await ensureSymbolGraph(), with a seed given
HandleGenerate ==
  /\ triggers < MaxTriggers
  /\ \E traceDepth \in 0..1 :
       IF store.fileIndex = NULL
       THEN /\ generates' = Append(generates,
                 GenerateRequest("failed", "File index is not available.", 0, traceDepth))
            /\ UNCHANGED <<store, builds>>
       ELSE IF traceDepth > 0
       THEN LET r == ensureSymbolGraph(store, builds) IN
            /\ store' = r.store
            /\ builds' = r.builds
            /\ generates' = Append(generates,
                 GenerateRequest("waiting", NULL, r.started, traceDepth))
       ELSE /\ generates' = Append(generates, GenerateRequest("done", NULL, 0, traceDepth))
            /\ UNCHANGED <<store, builds>>
  /\ triggers' = triggers + 1
  /\ UNCHANGED loads
  /\ UNCHANGED builderVars

\* handleGenerate after its await: const graph = getState().symbolGraph; if (graph)
\* trace every seed, else 'Tracing skipped: Graph unavailable'
GenerateContinues ==
  /\ \E g \in 1..Len(generates) :
       /\ generates[g].state = "waiting"
       /\ IF generates[g].awaits = 0 THEN TRUE
          ELSE builds[generates[g].awaits].state # "running"
       /\ generates' = [generates EXCEPT ![g].state = "done",
                                         ![g].traced = store.symbolGraph # NULL,
                                         ![g].graph = store.symbolGraph]
  /\ UNCHANGED <<store, loads, builds, triggers>>
  /\ UNCHANGED builderVars

\* buildSymbolGraph is entered with some file index, alias table and failures to meet
Init ==
  /\ \E project \in Projects :
       /\ fileIndex = project.files
       /\ aliasMap = project.aliases
       /\ faults \in FaultSets(FaultsOf(project), MaxFaults)
  /\ pc = "parse"
  /\ idx = 1
  /\ astCache = <<>>
  /\ graph = <<>>
  /\ graphOrder = <<>>
  /\ errors = <<>>
  /\ console = <<>>
  /\ resolutionCache = <<>>
  /\ exportCalls = <<>>
  /\ resolveCalls = <<>>
  /\ traced = NoTrace
  /\ store = initialState
  /\ loads = <<>>
  /\ builds = <<>>
  /\ generates = <<>>
  /\ triggers = 0

Next == ParseFile \/ DiscoverFile \/ LinkFile \/ Trace

Spec == Init /\ [][Next]_vars

\* buildSymbolGraph alone: the three passes, up to the graph it returns
BuildNext == ParseFile \/ DiscoverFile \/ LinkFile

BuildSpec == Init /\ [][BuildNext]_vars

\* the file index in another iteration order: rotated by k entries, or reversed
Rotate(q, k) == SubSeq(q, k + 1, Len(q)) \o SubSeq(q, 1, k)

Reverse(q) == [i \in 1..Len(q) |-> q[Len(q) + 1 - i]]

Orderings(q) == {Rotate(q, k) : k \in 0..(Len(q) - 1)} \cup {Reverse(q)}

\* buildSymbolGraph is entered with the file index of a project in some iteration order
OrderInit ==
  /\ \E project \in Projects :
       /\ fileIndex \in Orderings(project.files)
       /\ aliasMap = project.aliases
       /\ faults \in FaultSets(FaultsOf(project), MaxFaults)
  /\ pc = "parse"
  /\ idx = 1
  /\ astCache = <<>>
  /\ graph = <<>>
  /\ graphOrder = <<>>
  /\ errors = <<>>
  /\ console = <<>>
  /\ resolutionCache = <<>>
  /\ exportCalls = <<>>
  /\ resolveCalls = <<>>
  /\ traced = NoTrace
  /\ store = initialState
  /\ loads = <<>>
  /\ builds = <<>>
  /\ generates = <<>>
  /\ triggers = 0

OrderSpec == OrderInit /\ [][BuildNext]_vars

\* the module strings a file imports or re-exports from
SourcesOf(ast) ==
  {ast[i].source : i \in {j \in 1..Len(ast) :
      ast[j].type \in {"ImportDeclaration", "ExportNamedDeclaration", "ExportAllDeclaration"}}}

\* specifiers whose '..' segments climb above the repository root, directly or behind
\* an alias prefix
ClimbingSpecifiers ==
  {"../../../data", "../../widget", "../../../packages/b/src/y", "@b/../../../../a/src/x"}

\* the specifiers resolve is called with: those of the project's files and the climbing ones
SpecifiersOf(files) ==
  UNION {SourcesOf(files[i].ast) : i \in 1..Len(files)} \cup ClimbingSpecifiers

\* a PathResolver has been constructed on the file set and alias table of a project
ResolverInit ==
  /\ \E project \in Projects :
       /\ fileIndex = project.files
       /\ aliasMap = project.aliases
  /\ faults = {}
  /\ pc = "resolver"
  /\ idx = 1
  /\ astCache = <<>>
  /\ graph = <<>>
  /\ graphOrder = <<>>
  /\ errors = <<>>
  /\ console = <<>>
  /\ resolutionCache = <<>>
  /\ exportCalls = <<>>
  /\ resolveCalls = <<>>
  /\ traced = NoTrace
  /\ store = initialState
  /\ loads = <<>>
  /\ builds = <<>>
  /\ generates = <<>>
  /\ triggers = 0

\* pathResolver.resolve(fromPath, importPath, errors) on that instance
ResolveCall ==
  /\ pc = "resolver"
  /\ Len(resolveCalls) < MaxCalls
  /\ \E fromPath \in {p \in filePaths : IsSourcePath(p)}, importPath \in SpecifiersOf(fileIndex) :
       LET r == resolve(fromPath, importPath, [cache |-> resolutionCache, errors |-> errors])
       IN  /\ resolutionCache' = r.cache
           /\ errors' = r.errors
           /\ resolveCalls' = Append(resolveCalls,
                [fromPath |-> fromPath, importPath |-> importPath, value |-> r.value,
                 cached |-> ResolveKey(fromPath, importPath) \in DOMAIN resolutionCache])
  /\ UNCHANGED <<fileIndex, aliasMap, faults, pc, idx, astCache, graph, graphOrder,
                 console, exportCalls, traced>>
  /\ UNCHANGED storeVars

ResolverSpec == ResolverInit /\ [][ResolveCall]_vars

\* the store as created, with no source loaded; the passes of a build are followed above
StoreInit ==
  /\ fileIndex = <<>>
  /\ aliasMap = <<>>
  /\ faults = {}
  /\ pc = "parse"
  /\ idx = 1
  /\ astCache = <<>>
  /\ graph = <<>>
  /\ graphOrder = <<>>
  /\ errors = <<>>
  /\ console = <<>>
  /\ resolutionCache = <<>>
  /\ exportCalls = <<>>
  /\ resolveCalls = <<>>
  /\ traced = NoTrace
  /\ store = initialState
  /\ loads = <<>>
  /\ builds = <<>>
  /\ generates = <<>>
  /\ triggers = 0

StoreNext ==
  \/ SetFileSource \/ GetConfig \/ GetFileList \/ LoadFails \/ Reset \/ EnsureSymbolGraph
  \/ FetchText \/ BuildResolves \/ BuildRejects \/ HandleGenerate \/ GenerateContinues

StoreSpec == StoreInit /\ [][StoreNext]_vars

(***************************************************************************)
(* Properties.                                                             *)
(***************************************************************************)
Deps(id) == Range(graph[id].dependencies)

Dependents(id) == Range(graph[id].dependents)

LinkingFailed == \E i \in 1..Len(errors) : StartsWith(errors[i], "[Dependency Linking Failed]")

\* C1: edges are symmetric. In every state of a build, also one in which the discovery
\* or the linking of a file threw midway, for all node IDs A and B of the graph:
\* B is in A.dependencies if and only if A is in B.dependents.
C1_SymmetricEdges ==
  \A a \in DOMAIN graph, b \in DOMAIN graph : (b \in Deps(a)) <=> (a \in Dependents(b))

\* a finished build whose linking pass threw in a file after it had added an edge
C1_Witness ==
  /\ pc = "done"
  /\ LinkingFailed
  /\ \E f \in faults : /\ f.kind = "binding"
                       /\ f.path \in DOMAIN graph
                       /\ Deps(f.path) # {}

\* C2: file-node totality. In the finished graph every file of the AST cache has exactly
\* one node with symbolName "(file)", and that node's id is the file path -- also when
\* the file declares nothing, resolves no import, or its discovery traversal threw.
C2_FileNodeTotality ==
  pc = "done" =>
    \A p \in Range(astCache) :
      /\ p \in DOMAIN graph
      /\ graph[p].id = p
      /\ graph[p].filePath = p
      /\ graph[p].symbolName = "(file)"
      /\ {id \in DOMAIN graph : graph[id].filePath = p /\ graph[id].symbolName = "(file)"} = {p}
      /\ Cardinality({i \in 1..Len(graphOrder) : graphOrder[i] = p}) = 1

\* a finished build in which the discovery traversal of a cached file threw at its first node
C2_Witness ==
  /\ pc = "done"
  /\ \E f \in faults : f.kind = "discover" /\ f.at = 1 /\ f.path \in Range(astCache)
  /\ \E i \in 1..Len(errors) : StartsWith(errors[i], "[Symbol Discovery Failed]")

\* the file index is a chain f1.ts, f2.ts, f3.ts, f4.ts in which each file has an import
\* that resolves to the next, and the build met no failure
ChainOfFour ==
  /\ [i \in 1..Len(fileIndex) |-> fileIndex[i].path] = <<"f1.ts", "f2.ts", "f3.ts", "f4.ts">>
  /\ \A i \in 1..3 :
       \E j \in 1..Len(fileIndex[i].ast) :
         LET node == fileIndex[i].ast[j] IN
           /\ node.type = "ImportDeclaration"
           /\ ResolveUncached(fileIndex[i].path, node.source).value = fileIndex[i + 1].path
           /\ \E k \in 1..Len(node.specifiers) : node.specifiers[k].type = "ImportSpecifier"
  /\ faults = {}

Traced(startId, mode, maxHops) ==
  /\ traced.called
  /\ traced.startId = startId
  /\ traced.mode = mode
  /\ traced.maxHops = maxHops

\* C3: hop-limit boundary. On the graph built from a chain f1 -> f2 -> f3 -> f4 (each file
\* importing the next), tracing "f1.ts" along dependencies returns exactly {f1.ts} for
\* maxHops 0, {f1.ts, f2.ts} for maxHops 1 and {f1.ts, f2.ts, f3.ts} for maxHops 2.
C3_ChainHopLimit ==
  ChainOfFour =>
    /\ Traced("f1.ts", "dependencies", 0) => Range(traced.result) = {"f1.ts"}
    /\ Traced("f1.ts", "dependencies", 1) => Range(traced.result) = {"f1.ts", "f2.ts"}
    /\ Traced("f1.ts", "dependencies", 2) => Range(traced.result) = {"f1.ts", "f2.ts", "f3.ts"}

\* C4: direction symmetry. On the graph built from the same chain, tracing "f4.ts"
\* along dependents with maxHops 2 returns exactly {f4.ts, f3.ts, f2.ts}.
C4_ChainDependents ==
  (ChainOfFour /\ Traced("f4.ts", "dependents", 2)) =>
    Range(traced.result) = {"f4.ts", "f3.ts", "f2.ts"}

\* the start identifier of the last trace selects no node: a symbol ID that is no key of
\* the graph, or a path that is no node's filePath
EmptyStartSet ==
  IF Includes(traced.startId, "#")
  THEN traced.startId \notin DOMAIN graph
  ELSE \A id \in DOMAIN graph : graph[id].filePath # traced.startId

\* C5: unknown start. Whatever the graph, the mode and the hop limit, a trace whose start
\* set is empty returns the empty array.
C5_EmptyStartReturnsEmpty ==
  (traced.called /\ EmptyStartSet) => traced.result = <<>>

\* trace(graph, "nonexistent.ts", "both", MaxHops) was asked of a graph that has edges
C5_Witness ==
  /\ Traced("nonexistent.ts", "both", MaxHops)
  /\ \E id \in DOMAIN graph : Deps(id) # {}
  /\ traced.result = <<>>

\* the nodes of a file
NodesIn(filePath) == {id \in DOMAIN graph : graph[id].filePath = filePath}

\* a relative specifier that leaves the package root of the importing file for another one
CrossPackageRelative(fromPath, importPath) ==
  LET spec == StripSourceExt(importPath)
      target == pathNormalize(pathJoin(Substring0(fromPath, LastIndexOf(fromPath, "/")), spec))
  IN  /\ MatchedAlias(spec) = 0
      /\ StartsWith(spec, ".")
      /\ getPackageRoot(fromPath) \notin {NULL, ""}
      /\ getPackageRoot(target) \notin {NULL, ""}
      /\ getPackageRoot(fromPath) # getPackageRoot(target)

ImportSourcesOf(ast) ==
  {ast[i].source : i \in {j \in 1..Len(ast) : ast[j].type = "ImportDeclaration"}}

\* C6: cross-package relative imports are rejected. Whenever resolve has been called for
\* a relative specifier whose importing file and resolved target lie in different package
\* roots, it returned null and the diagnostics name the file and the specifier; and a
\* file all of whose imports are of that kind has no edge to any node.
C6_CrossPackageRejected ==
  \A i \in 1..Len(fileIndex) :
    LET f == fileIndex[i] IN
      /\ \A src \in SourcesOf(f.ast) :
           (/\ CrossPackageRelative(f.path, src)
            /\ ResolveKey(f.path, src) \in DOMAIN resolutionCache)
           => /\ resolutionCache[ResolveKey(f.path, src)] = NULL
              /\ InvalidImportMessage(f.path, src) \in Range(errors)
      /\ (/\ ImportSourcesOf(f.ast) # {}
          /\ \A src \in ImportSourcesOf(f.ast) : CrossPackageRelative(f.path, src))
         => \A id \in NodesIn(f.path) : Deps(id) = {}

\* the build of the two aliased packages is finished: packages/a/src/x.ts imported
\* '../../b/src/y', y.ts has its nodes, and z.ts reached y through the alias
C6_Witness ==
  /\ pc = "done"
  /\ aliasMap = <<[name |-> "@a", target |-> "packages/a/src"],
                  [name |-> "@b", target |-> "packages/b/src"]>>
  /\ ResolveKey("packages/a/src/x.ts", "../../b/src/y") \in DOMAIN resolutionCache
  /\ CrossPackageRelative("packages/a/src/x.ts", "../../b/src/y")
  /\ {"packages/b/src/y.ts#y", "packages/a/src/z.ts", "packages/a/src/x.ts"} \subseteq DOMAIN graph
  /\ "packages/b/src/y.ts#y" \in Deps("packages/a/src/z.ts")
  /\ Deps("packages/a/src/x.ts") = {}
  /\ Len(errors) = 1

\* the file has a declaration of the name that the discovery pass turns into a node
Declares(path, name) ==
  \E i \in 1..Len(AstOf(path)) :
    LET node == AstOf(path)[i] IN
      \/ node.type \in DeclarationTypes /\ node.name = name
      \/ node.type = "VariableDeclaration" /\ node.topLevel /\ name \in Range(node.names)
      \/ node.type = "ExportDefaultDeclaration" /\ name = "default"

\* the statements of a file that re-export the name: [source, local]
ReExportsOf(path, name) ==
  UNION {
    LET node == AstOf(path)[i] IN
      IF node.type = "ExportAllDeclaration" THEN {[source |-> node.source, local |-> name]}
      ELSE IF node.type = "ExportNamedDeclaration"
      THEN {[source |-> node.source, local |-> node.specifiers[k].local] :
              k \in {k \in 1..Len(node.specifiers) : node.specifiers[k].exported = name}}
      ELSE {}
    : i \in 1..Len(AstOf(path))}

\* where a chain of re-exports of the name starting at a file ends: the ID of the
\* declaration in the declaring file, or NULL when what starts at the file is no chain
\* (a file on it both declares and re-exports the name, re-exports it twice, re-exports
\* it from a file outside the AST cache, or the chain is longer than n files)
RECURSIVE ChainOrigin(_, _, _)
ChainOrigin(path, name, n) ==
  IF n = 0 \/ path \notin Range(astCache) THEN NULL
  ELSE IF ReExportsOf(path, name) = {}
       THEN IF Declares(path, name) THEN SymbolId(path, name) ELSE NULL
  ELSE IF Cardinality(ReExportsOf(path, name)) = 1 /\ ~Declares(path, name)
       THEN LET re == CHOOSE r \in ReExportsOf(path, name) : TRUE
                next == ResolveUncached(path, re.source).value
            IN  IF next = NULL THEN NULL ELSE ChainOrigin(next, re.local, n - 1)
  ELSE NULL

\* the named and default imports of a file: [source, name, refs]
ImportsOf(path) ==
  UNION {
    LET node == AstOf(path)[i] IN
      IF node.type # "ImportDeclaration" THEN {}
      ELSE {[source |-> node.source,
             name |-> IF node.specifiers[k].type = "ImportSpecifier"
                      THEN node.specifiers[k].imported ELSE "default",
             refs |-> node.specifiers[k].refs] :
              k \in {k \in 1..Len(node.specifiers) :
                       node.specifiers[k].type \in {"ImportSpecifier", "ImportDefaultSpecifier"}}}
    : i \in 1..Len(AstOf(path))}

\* the symbol nodes the references of an import are attributed to
EnclosingSymbols(path, refs) ==
  {ImporterIdOf(path, refs[i]) : i \in 1..Len(refs)} \cap DOMAIN graph

\* C7: re-export chains end at the origin. In a build without failures, when a file
\* imports a name from a file that only re-exports it, through a chain of named or
\* wildcard re-exports ending at the file that declares it, the importer's file node and
\* every enclosing symbol of a reference have an edge to <origin>#<name>, recorded in both
\* directions, and no node has an edge to <re-exporting file>#<name>.
C7_ReExportChainToOrigin ==
  (pc = "done" /\ faults = {}) =>
    \A consumer \in Range(astCache) :
      \A imp \in ImportsOf(consumer) :
        LET mid == ResolveUncached(consumer, imp.source).value
            origin == IF mid = NULL THEN NULL ELSE ChainOrigin(mid, imp.name, Len(fileIndex))
        IN  (mid # NULL /\ origin # NULL /\ origin # SymbolId(mid, imp.name))
            => /\ origin \in DOMAIN graph
               /\ origin \in Deps(consumer)
               /\ consumer \in Dependents(origin)
               /\ \A sym \in EnclosingSymbols(consumer, imp.refs) :
                    origin \in Deps(sym) /\ sym \in Dependents(origin)
               /\ \A id \in DOMAIN graph : SymbolId(mid, imp.name) \notin Deps(id)

\* consumer.ts imported Foo from a file that re-exports it, and the build is finished:
\* once through one named re-export, once through a wildcard and a named one
C7_Witness ==
  /\ pc = "done"
  /\ faults = {}
  /\ {"consumer.ts", "origin.ts#Foo"} \subseteq DOMAIN graph
  /\ "origin.ts#Foo" \in Deps("consumer.ts")
  /\ \E i \in 1..Len(exportCalls) :
       /\ exportCalls[i].importer = "consumer.ts"
       /\ exportCalls[i].origin = "origin.ts#Foo"
       /\ Len(exportCalls[i].entered) = 3
       /\ EnclosingSymbols("consumer.ts", <<Enclosing("FunctionDeclaration", "use")>>) # {}

NoDuplicates(q) == \A i \in 1..Len(q), j \in 1..Len(q) : q[i] = q[j] => i = j

\* the name a call looked for is declared in none of the files it went through
DeclaredNowhere(call) ==
  \A i \in 1..Len(call.entered) :
    call.entered[i].targetPath \in Range(astCache)
      => ~isDeclaredLocally(call.entered[i].targetPath, call.entered[i].symbolName)

\* C8: circular re-exports are safe. Every export-origin resolution of the linking pass
\* returns within the call depth, having entered each (file, symbol) pair at most once;
\* when the name is declared in none of the files it went through (as on a cycle of
\* re-exports) it returns null, and the graph holds no node and no edge for that name in
\* those files.
C8_CircularReExportSafe ==
  \A c \in 1..Len(exportCalls) :
    LET call == exportCalls[c] IN
      /\ ~call.overflow
      /\ NoDuplicates(call.entered)
      /\ DeclaredNowhere(call) =>
           /\ call.origin = NULL
           /\ \A i \in 1..Len(call.entered) :
                LET ghost == SymbolId(call.entered[i].targetPath, call.entered[i].symbolName)
                IN  /\ ghost \notin DOMAIN graph
                    /\ \A id \in DOMAIN graph : ghost \notin Deps(id) \cup Dependents(id)

\* a finished build in which consumer.ts asked a.ts for Ghost, the search went round the
\* cycle a.ts -> b.ts -> a.ts and was turned away by the visited set
C8_Witness ==
  /\ pc = "done"
  /\ \E c \in 1..Len(exportCalls) :
       /\ exportCalls[c].name = "Ghost"
       /\ exportCalls[c].entered = <<[targetPath |-> "a.ts", symbolName |-> "Ghost"],
                                     [targetPath |-> "b.ts", symbolName |-> "Ghost"]>>
       /\ exportCalls[c].blocked = 1
       /\ exportCalls[c].origin = NULL

\* the (fromPath, importPath) pairs resolve can be called with
ResolvePairs ==
  UNION {{[fromPath |-> fileIndex[i].path, importPath |-> src] : src \in SourcesOf(fileIndex[i].ast)}
         : i \in 1..Len(fileIndex)}

\* C9: resolution is deterministic. For the fixed file set and alias table of a build,
\* the answer the memoization cache holds for a (fromPath, importSpecifier) pair -- the
\* one every later call with that pair returns -- is the answer the resolution steps
\* give when computed without the cache, and the cache holds answers for such pairs only.
C9_MemoizedAgreesWithUncached ==
  /\ \A pair \in ResolvePairs :
       ResolveKey(pair.fromPath, pair.importPath) \in DOMAIN resolutionCache
         => resolutionCache[ResolveKey(pair.fromPath, pair.importPath)]
              = ResolveUncached(pair.fromPath, pair.importPath).value
  /\ DOMAIN resolutionCache \subseteq
       {ResolveKey(pair.fromPath, pair.importPath) : pair \in ResolvePairs}

\* a finished build in which resolve answered ('a.ts', './b') from the cache (two export
\* resolutions went from a.ts on to b.ts), and one in which './util' is cached for two
\* importing files with different answers
C9_Witness ==
  /\ pc = "done"
  /\ \/ /\ ResolveKey("a.ts", "./b") \in DOMAIN resolutionCache
        /\ \E c, d \in 1..Len(exportCalls) :
             /\ c # d
             /\ \A e \in {c, d} :
                  /\ Len(exportCalls[e].entered) >= 2
                  /\ exportCalls[e].entered[1].targetPath = "a.ts"
                  /\ exportCalls[e].entered[2].targetPath = "b.ts"
     \/ /\ {ResolveKey("app/main.ts", "./util"), ResolveKey("lib/main.ts", "./util")}
             \subseteq DOMAIN resolutionCache
        /\ resolutionCache[ResolveKey("app/main.ts", "./util")]
             # resolutionCache[ResolveKey("lib/main.ts", "./util")]

\* C10: a file the parser cannot handle is isolated. When exactly one file fails to parse,
\* the build completes, the file is absent from the cache and the graph, and the
\* diagnostics returned to the caller are non-empty and mention the file's path.
C10_BrokenFileReported ==
  \A f \in faults :
    (pc = "done" /\ faults = {f} /\ f.kind = "parse")
      => /\ f.path \notin Range(astCache)
         /\ NodesIn(f.path) = {}
         /\ errors # <<>>
         /\ \E i \in 1..Len(errors) : Includes(errors[i], f.path)

\* C11: every parsed file is traceable by its path alone. Whenever a finished graph is
\* traced from the path of a file of the AST cache, in any mode and with any hop limit,
\* the returned array is non-empty and contains that path.
C11_ParsedFileTraceable ==
  (traced.called /\ traced.startId \in Range(astCache)) =>
    /\ Len(traced.result) > 0
    /\ traced.startId \in Range(traced.result)

\* a trace from the path of a parsed file whose discovery threw at its first node, so
\* that the file node is the only node it has
C11_Witness ==
  /\ traced.called
  /\ traced.startId \in Range(astCache)
  /\ \E f \in faults : f.kind = "discover" /\ f.at = 1 /\ f.path = traced.startId
  /\ NodesIn(traced.startId) = {traced.startId}
  /\ traced.result = <<traced.startId>>

\* the neighbours one hop follows from a node in a mode, as far as they are graph nodes
Neighbours(id, mode) ==
  ((IF mode \in {"dependencies", "both"} THEN Deps(id) ELSE {})
     \cup (IF mode \in {"dependents", "both"} THEN Dependents(id) ELSE {}))
    \cap DOMAIN graph

\* the nodes at hop distance at most k from the set S
RECURSIVE Within(_, _, _)
Within(S, mode, k) ==
  IF k = 0 THEN S
  ELSE Within(S \cup UNION {Neighbours(id, mode) : id \in S}, mode, k - 1)

\* the start set of the last trace
StartSet == Range(StartNodes(graph, graphOrder, traced.startId))

\* C12: breadth-first exactness. The array a trace returns is duplicate-free and holds
\* exactly the file paths of the nodes whose shortest hop distance from the start set is
\* at most maxHops (one hop following dependencies, dependents, or both, by mode); every
\* such node is queued exactly once, at its shortest distance, and none beyond maxHops.
C12_BreadthFirstExact ==
  traced.called =>
    /\ Range(traced.result) =
         {graph[id].filePath : id \in Within(StartSet, traced.mode, traced.maxHops)}
    /\ NoDuplicates(traced.result)
    /\ {traced.queue[i].id : i \in 1..Len(traced.queue)}
         = Within(StartSet, traced.mode, traced.maxHops)
    /\ \A i \in 1..Len(traced.queue), j \in 1..Len(traced.queue) :
         traced.queue[i].id = traced.queue[j].id => i = j
    /\ \A i \in 1..Len(traced.queue) :
         LET e == traced.queue[i] IN
           /\ e.hops \in 0..traced.maxHops
           /\ e.id \in Within(StartSet, traced.mode, e.hops)
           /\ e.hops > 0 => e.id \notin Within(StartSet, traced.mode, e.hops - 1)

\* a trace that the hop limit cut short: nodes at distance maxHops are in the result, they
\* have neighbours one hop further that are not, and a node was reached again through a
\* second neighbour after it had been visited
C12_Witness ==
  /\ traced.called
  /\ traced.maxHops >= 1
  /\ Len(traced.result) >= 3
  /\ Within(StartSet, traced.mode, traced.maxHops + 1)
       # Within(StartSet, traced.mode, traced.maxHops)
  /\ \E i \in 1..Len(traced.queue) :
       /\ traced.queue[i].hops = traced.maxHops
       /\ Cardinality({j \in 1..Len(traced.queue) :
             /\ traced.queue[j].hops < traced.maxHops
             /\ traced.queue[i].id \in Neighbours(traced.queue[j].id, traced.mode)}) >= 2

C14_SingleBuildInFlight == Cardinality(InFlight) <= 1

\* a build has just rejected and the ensureSymbolGraph awaiting it has caught
BuildRejected ==
  \E b \in 1..Len(builds) : builds[b].state = "running" /\ builds'[b].state = "rejected"

\* C15a: the fatal path. The step in which a rejected build is caught leaves graphStatus
\* 'error' and the FATAL entry in resolutionErrors, and the file index and the load
\* status as they were (ready stays ready).
C15_FatalStep ==
  [][BuildRejected =>
       /\ store'.graphStatus = "error"
       /\ FatalMessage \in Range(store'.resolutionErrors)
       /\ store'.fileIndex = store.fileIndex
       /\ store'.status = store.status]_vars

\* C15b: the outcomes are told apart by the store: graphStatus 'error' goes with the
\* FATAL entry and no other status does, and idle / building go with no entry at all.
C15_Distinguishable ==
  /\ store.graphStatus = "error" <=> FatalMessage \in Range(store.resolutionErrors)
  /\ store.graphStatus \in {"idle", "building"} => store.resolutionErrors = <<>>
  /\ store.graphStatus \in {"idle", "building", "ready", "error"}

\* C15c: a generate request made while graphStatus is 'error', with the file index whose
\* build rejects, does not fail, and when it completes it has not traced: it holds the
\* seed and wildcard-matched files only.
C15_GenerateWithoutGraph ==
  \A g \in 1..Len(generates) :
    (/\ generates[g].calledIn = "error"
     /\ generates[g].seeds # NULL
     /\ SourceNamed(generates[g].seeds).rejects) =>
      /\ generates[g].state # "failed"
      /\ generates[g].state = "done" => ~generates[g].traced


\* the candidate path alias or relative resolution produces for a specifier, NULL when
\* the specifier is bare or rejected
CandidateOf(fromPath, importPath) ==
  IF ~Falsy(AliasResolved(StripSourceExt(importPath)))
  THEN AliasResolved(StripSourceExt(importPath))
  ELSE IF StartsWith(StripSourceExt(importPath), ".") /\ ~CrossPackageRelative(fromPath, importPath)
  THEN RelativeCandidate(fromPath, StripSourceExt(importPath))
  ELSE NULL

\* the probing order as documented: the bare path, its extension variants, then the
\* directory index and its extension variants
DocumentedAttempts(resolvedPath) ==
  <<resolvedPath, resolvedPath \o ".ts", resolvedPath \o ".tsx", resolvedPath \o ".js",
    resolvedPath \o ".jsx", resolvedPath \o "/index", resolvedPath \o "/index.ts",
    resolvedPath \o "/index.tsx", resolvedPath \o "/index.js", resolvedPath \o "/index.jsx">>

\* the first path of a list that is a known file, or null
FirstKnown(attempts) ==
  LET hits == {i \in 1..Len(attempts) : attempts[i] \in filePaths}
  IN  IF hits = {} THEN NULL ELSE attempts[CHOOSE i \in hits : \A j \in hits : i <= j]

\* C16: probing order. For a candidate path P from alias or relative resolution, the
\* answer resolve caches and returns is the first known file among P, P.ts, P.tsx, P.js,
\* P.jsx, P/index, P/index.ts, P/index.tsx, P/index.js, P/index.jsx, and null if none is.
C16_ProbingOrder ==
  \A pair \in ResolvePairs :
    (/\ ResolveKey(pair.fromPath, pair.importPath) \in DOMAIN resolutionCache
     /\ CandidateOf(pair.fromPath, pair.importPath) # NULL)
      => resolutionCache[ResolveKey(pair.fromPath, pair.importPath)]
           = FirstKnown(DocumentedAttempts(CandidateOf(pair.fromPath, pair.importPath)))

\* the specifier starts with the alias prefix `name`
AliasPrefixed(importPath, name) == StartsWith(StripSourceExt(importPath), name)

\* the target prefix substituted for the alias prefix, '.' and '..' segments resolved
Substituted(importPath, alias) ==
  pathNormalize(alias.target \o "/"
    \o SubSeq(StripSourceExt(importPath), Len(alias.name) + 1, Len(StripSourceExt(importPath))))

\* C17: alias resolution. Whenever resolve has answered for a specifier that starts with
\* an alias prefix of the table, the answer is what probing finds for the alias's target
\* prefix substituted for the matched prefix with '.' and '..' segments resolved,
\* whatever file imports it; the specifier is not handled as a relative one (no
\* cross-package diagnostic, no candidate below the importing file's directory).
C17_AliasSubstitution ==
  \A pair \in ResolvePairs : \A i \in 1..Len(aliasMap) :
    (/\ ResolveKey(pair.fromPath, pair.importPath) \in DOMAIN resolutionCache
     /\ AliasPrefixed(pair.importPath, aliasMap[i].name))
      => /\ resolutionCache[ResolveKey(pair.fromPath, pair.importPath)]
              = Probe(Substituted(pair.importPath, aliasMap[i]))
         /\ Range(Split(Substituted(pair.importPath, aliasMap[i]))) \cap {".", "..", ""} = {}
         /\ InvalidImportMessage(pair.fromPath, pair.importPath) \notin Range(errors)
         /\ \A other \in ResolvePairs :
              (/\ other.importPath = pair.importPath
               /\ ResolveKey(other.fromPath, other.importPath) \in DOMAIN resolutionCache)
                => resolutionCache[ResolveKey(other.fromPath, other.importPath)]
                     = resolutionCache[ResolveKey(pair.fromPath, pair.importPath)]

\* the build of the aliased packages is finished: '@shared/../lib/util' went to
\* packages/shared/lib/util.ts for both importing files, and '.shared/./types', which
\* starts with a dot and with an alias, went to the index file of the alias target
C17_Witness ==
  /\ pc = "done"
  /\ {ResolveKey("packages/app/src/deep/main.ts", "@shared/../lib/util"),
      ResolveKey("tools/cli.ts", "@shared/../lib/util"),
      ResolveKey("packages/app/src/deep/main.ts", ".shared/./types")}
       \subseteq DOMAIN resolutionCache
  /\ resolutionCache[ResolveKey("packages/app/src/deep/main.ts", "@shared/../lib/util")]
       = "packages/shared/lib/util.ts"
  /\ resolutionCache[ResolveKey("tools/cli.ts", "@shared/../lib/util")]
       = "packages/shared/lib/util.ts"
  /\ resolutionCache[ResolveKey("packages/app/src/deep/main.ts", ".shared/./types")]
       = "packages/shared/src/types/index.ts"
  /\ "packages/shared/lib/util.ts#util" \in Deps("packages/app/src/deep/main.ts#main")
  /\ "packages/shared/src/types/index.ts#Shape" \in Deps("packages/app/src/deep/main.ts")

\* a bare specifier (no leading dot, no alias prefix), or one whose candidate path has
\* no probing attempt in the known file set
Unresolvable(fromPath, importPath) ==
  \/ /\ ~StartsWith(StripSourceExt(importPath), ".")
     /\ \A i \in 1..Len(aliasMap) : ~AliasPrefixed(importPath, aliasMap[i].name)
  \/ /\ CandidateOf(fromPath, importPath) # NULL
     /\ Range(DocumentedAttempts(CandidateOf(fromPath, importPath))) \cap filePaths = {}

\* the linking pass is about to visit a file all of whose imports are unresolvable, and
\* its traversal will not throw
LinksOnlyUnresolvable ==
  /\ pc = "link"
  /\ idx <= Len(astCache)
  /\ ImportSourcesOf(AstOf(astCache[idx])) # {}
  /\ \A src \in ImportSourcesOf(AstOf(astCache[idx])) : Unresolvable(astCache[idx], src)
  /\ \A f \in faults : ~(f.kind = "link" /\ f.path = astCache[idx])

\* C18: unresolvable imports are silent. For a bare specifier, and for a specifier none
\* of whose probing attempts is a known file, resolve answers null and no diagnostic
\* quotes the specifier; and the linking pass over a file with only such imports adds
\* no edge to the graph and no diagnostic to the list.
C18_UnresolvableIsSilent ==
  /\ [](\A pair \in ResolvePairs :
         (/\ ResolveKey(pair.fromPath, pair.importPath) \in DOMAIN resolutionCache
          /\ Unresolvable(pair.fromPath, pair.importPath))
           => /\ resolutionCache[ResolveKey(pair.fromPath, pair.importPath)] = NULL
              /\ \A e \in 1..Len(errors) :
                   ~Includes(errors[e], "'" \o pair.importPath \o "'"))
  /\ [][LinksOnlyUnresolvable => (graph' = graph /\ errors' = errors)]_vars

\* the build is finished, ext.ts was linked: its imports from 'data' (a bare specifier,
\* although data.ts is a known file declaring `data`) and from './missing' are cached as
\* null, ext.ts and ext.ts#ext have no edge, and the diagnostics are empty
C18_Witness ==
  /\ pc = "done"
  /\ faults = {}
  /\ {ResolveKey("ext.ts", "data"), ResolveKey("ext.ts", "./missing")} \subseteq DOMAIN resolutionCache
  /\ resolutionCache[ResolveKey("ext.ts", "data")] = NULL
  /\ resolutionCache[ResolveKey("ext.ts", "./missing")] = NULL
  /\ {"ext.ts", "ext.ts#ext", "data.ts#data", "widget.tsx#Widget"} \subseteq DOMAIN graph
  /\ Deps("ext.ts") = {} /\ Deps("ext.ts#ext") = {}
  /\ errors = <<>>

\* C19: symbol-level edges rest on file-level edges. In any graph under construction or
\* built, a symbol node F#s that depends on T implies the file node F depends on T and
\* T's dependents hold both F and F#s; and every import whose origin resolved to an
\* existing node has its file-level edge, whether or not a reference was attributed.
C19_FileLevelBaseline ==
  /\ \A id \in DOMAIN graph : \A t \in Deps(id) :
       graph[id].symbolName # "(file)"
         => /\ graph[id].filePath \in DOMAIN graph
            /\ t \in Deps(graph[id].filePath)
            /\ {graph[id].filePath, id} \subseteq Dependents(t)
  /\ \A c \in 1..Len(exportCalls) :
       (~Falsy(exportCalls[c].origin) /\ exportCalls[c].origin \in DOMAIN graph)
         => /\ exportCalls[c].origin \in Deps(exportCalls[c].importer)
            /\ exportCalls[c].importer \in Dependents(exportCalls[c].origin)

\* a finished build holding a symbol-level edge on top of its file-level edge
\* (f1.ts#f1 and f1.ts both depend on f2.ts#f2) and a file-level edge with no
\* symbol-level one: the reference is at module top level, or the binding lookup threw
C19_Witness ==
  /\ pc = "done"
  /\ \E id \in DOMAIN graph : \E t \in Deps(id) :
       /\ graph[id].symbolName # "(file)"
       /\ t \in Deps(graph[id].filePath)
  /\ \E c \in 1..Len(exportCalls) :
       /\ ~Falsy(exportCalls[c].origin)
       /\ exportCalls[c].origin \in Deps(exportCalls[c].importer)
       /\ \A id \in NodesIn(exportCalls[c].importer) :
            graph[id].symbolName # "(file)" => exportCalls[c].origin \notin Deps(id)

\* the origins export-origin resolution may answer for (path, name) as documented: the
\* origin of a re-export of the name that resolves, if there is one; else the local
\* declaration; else null. n bounds the number of files followed.
RECURSIVE DocumentedOrigins(_, _, _)
DocumentedOrigins(path, name, n) ==
  IF n = 0 \/ path \notin Range(astCache) THEN {NULL}
  ELSE LET via == UNION {DocumentedOrigins(ResolveUncached(path, re.source).value, re.local, n - 1) :
                           re \in {r \in ReExportsOf(path, name) :
                                     ResolveUncached(path, r.source).value # NULL}}
       IN  IF via \ {NULL} # {} THEN via \ {NULL}
           ELSE IF Declares(path, name) THEN {SymbolId(path, name)}
           ELSE {NULL}

\* C20: re-exports win over local declarations. In a build without failures, the origin
\* resolveExport returns for (targetFile, name) is the origin of a re-export of the name whenever one resolves
\* to a declaration, targetFile#name only when none does and the name is declared
\* locally, and null when neither applies.
C20_ReExportPrecedence ==
  \A c \in 1..Len(exportCalls) :
    (faults = {} /\ ~exportCalls[c].overflow)
      => exportCalls[c].origin
           \in DocumentedOrigins(exportCalls[c].target, exportCalls[c].name, Len(fileIndex) + 1)

\* the nodes of the graph with every edge removed: the graph as discovery leaves it
WithoutEdges ==
  [id \in DOMAIN graph |-> [graph[id] EXCEPT !.dependencies = <<>>, !.dependents = <<>>]]

\* the dependency edges <<from, to>> of a node map
EdgesOf(nodes) ==
  UNION {{<<id, t>> : t \in Range(nodes[id].dependencies)} : id \in DOMAIN nodes}

\* the edges the linking of one file adds when its traversal is run on its own on the
\* discovered nodes with an empty resolver cache
Contribution(filePath) ==
  EdgesOf(LinkFrom([nodes |-> WithoutEdges, cache |-> <<>>, errors |-> <<>>,
                    calls |-> <<>>, threw |-> FALSE], filePath, 1).nodes)

\* the files whose traversal in the linking pass threw
FailingInLink == {filePath \in Range(astCache) : LinkingFailedMessage(filePath) \in Range(errors)}

\* C21: a traversal that throws in the linking pass is isolated. In a finished build
\* whose only failures are thrown inside the linking traversal of some files (by the
\* visitor or by an export resolution it calls), the diagnostics name each file whose
\* traversal was set to throw, with the error message, and the edges from the nodes of
\* every file that did not throw, in both directions, are exactly those the linking of that file
\* adds on its own, as in a build where nothing throws.
C21_LinkFailureIsolated ==
  (pc = "done" /\ \A f \in faults : f.kind \in {"link", "binding", "export"})
    => /\ \A f \in faults :
            (f.kind = "link" /\ \A g \in faults : g.path = f.path => g = f)
              => LinkingFailedMessage(f.path) \in Range(errors)
       /\ \A filePath \in Range(astCache) \ FailingInLink :
            /\ {e \in EdgesOf(graph) : graph[e[1]].filePath = filePath} = Contribution(filePath)
            /\ \A e \in Contribution(filePath) : e[1] \in Dependents(e[2])

\* the traversal of main.ts threw at its first import, the build is finished, the
\* diagnostic names main.ts, and helper.ts, linked after it, has its edge to util.ts#util
C21_Witness ==
  /\ pc = "done"
  /\ faults = {Fault("link", "main.ts", 1)}
  /\ astCache = <<"main.ts", "helper.ts", "util.ts">>
  /\ LinkingFailedMessage("main.ts") \in Range(errors)
  /\ Deps("main.ts") = {}
  /\ "util.ts#util" \in Deps("helper.ts")
  /\ "helper.ts" \in Dependents("util.ts#util")

\* the node IDs discovery gives a file when it is discovered on its own
DiscoveredAlone(filePath) ==
  DOMAIN DiscoverFrom(EnsureFileNode([nodes |-> <<>>, order |-> <<>>], filePath), filePath, 1).g.nodes

\* C22: files commute inside a pass. Whatever the iteration order of the file index (and
\* so of the AST cache in discovery and linking), the finished graph is the sum of what
\* each file contributes on its own: its node set is the union of the nodes each cached
\* file yields alone, its dependency edges are the union of the edges each file's linking
\* adds alone, and the dependents sets mirror them; the sum does not mention the order.
C22_OrderIndependent ==
  pc = "done" =>
    /\ DOMAIN graph = UNION {DiscoveredAlone(filePath) : filePath \in Range(astCache)}
    /\ EdgesOf(graph) = UNION {Contribution(filePath) : filePath \in Range(astCache)}
    /\ \A id \in DOMAIN graph : Dependents(id) = {e[1] : e \in {d \in EdgesOf(graph) : d[2] = id}}

\* the three-file set was built in reversed order: util.ts was discovered and linked
\* first, main.ts last, and the edges of main.ts and helper.ts are all there
C22_Witness ==
  /\ pc = "done"
  /\ faults = {}
  /\ astCache = <<"util.ts", "helper.ts", "main.ts">>
  /\ Deps("main.ts#main") = {"util.ts#util", "helper.ts#default"}
  /\ Dependents("util.ts#util") = {"main.ts", "main.ts#main", "helper.ts"}

\* the files pass 1 leaves in the AST cache: the source files whose parse did not fail
Parsed == {relevantFiles[i].path : i \in {j \in 1..Len(relevantFiles) :
                                          ~Throws("parse", relevantFiles[j].path, 0)}}

\* every cached file has the nodes discovery gives it
DiscoveryComplete ==
  \A filePath \in Range(astCache) : DiscoveredAlone(filePath) \subseteq DOMAIN graph

\* C23: the passes run strictly in sequence. The AST cache changes only during parsing
\* and is complete when discovery starts; nodes are created only during discovery and
\* every cached file has all its nodes when linking starts; an edge is added only by the
\* linking pass, on a graph where no node of a cached file is missing; and the linking
\* pass neither creates nor removes a node.
C23_PassesInSequence ==
  /\ [](pc # "parse" => Range(astCache) = Parsed)
  /\ [](pc \in {"link", "done"} => DiscoveryComplete)
  /\ [][astCache' # astCache => pc = "parse"]_vars
  /\ [][DOMAIN graph' # DOMAIN graph => pc = "discover"]_vars
  /\ [][EdgesOf(graph') # EdgesOf(graph)
          => (pc = "link" /\ Range(astCache) = Parsed /\ DiscoveryComplete
              /\ DOMAIN graph' = DOMAIN graph)]_vars

\* linking has begun on the complete node set of the re-export chain and has added the
\* first edges, to a node discovered after the importing file's own nodes
C23_Witness ==
  /\ pc = "link"
  /\ idx > 1
  /\ faults = {}
  /\ astCache = <<"consumer.ts", "barrel/index.ts", "barrel/mid.ts", "origin.ts", "setup.ts">>
  /\ DiscoveryComplete
  /\ "origin.ts#Foo" \in Deps("consumer.ts#use")

\* C24: a file-level edge joins two file nodes. Whenever the linking pass of a build
\* without failures has recorded
\* that an importing file depends on the file an imported name originates in, the
\* importing file's file node has that file's file node in its dependencies, and that
\* file's file node has the importing file's file node in its dependents.
C24_FileNodesLinked ==
  \A c \in 1..Len(exportCalls) :
    (/\ faults = {}
     /\ ~Falsy(exportCalls[c].origin)
     /\ exportCalls[c].origin \in DOMAIN graph
     /\ exportCalls[c].origin \in Deps(exportCalls[c].importer))
      => /\ graph[exportCalls[c].origin].filePath \in Deps(exportCalls[c].importer)
         /\ exportCalls[c].importer \in Dependents(graph[exportCalls[c].origin].filePath)

\* C25: no edge dangles. In every graph, under construction or built, every ID in a
\* node's dependencies or dependents is the key of a node of the graph, and every node
\* is stored under its own id: the file path for a file node, filePath#symbolName for a
\* symbol node.
C25_NoDanglingEdge ==
  \A id \in DOMAIN graph :
    /\ Deps(id) \cup Dependents(id) \subseteq DOMAIN graph
    /\ graph[id].id = id
    /\ id = IF graph[id].symbolName = "(file)" THEN graph[id].filePath
            ELSE SymbolId(graph[id].filePath, graph[id].symbolName)

\* a finished graph with edges, built from imports one of which resolved to an origin
\* that has no node, so that no edge was added for it
C25_Witness ==
  /\ pc = "done"
  /\ EdgesOf(graph) # {}
  /\ \E c \in 1..Len(exportCalls) :
       /\ ~Falsy(exportCalls[c].origin)
       /\ exportCalls[c].origin \notin DOMAIN graph
       /\ exportCalls[c].importer \in DOMAIN graph

\* C26: the installed graph belongs to the current file index. Whenever the store has
\* graphStatus 'ready', a non-null symbolGraph and a file index, that graph was built from the file
\* index the store holds now: a build started on an earlier index never installs its
\* graph after a newer index has been loaded.
C26_GraphMatchesIndex ==
  (store.graphStatus = "ready" /\ store.symbolGraph # NULL /\ store.fileIndex # NULL)
    => store.symbolGraph = store.fileIndex

\* the nodes of a file are the source of no edge: no dependencies, in no dependents set
NoEdgeFrom(filePath) ==
  /\ \A id \in NodesIn(filePath) : Deps(id) = {}
  /\ \A t \in DOMAIN graph : Dependents(t) \cap NodesIn(filePath) = {}

\* C27: only named and default import specifiers create edges. In every graph, a file
\* without a named or default import specifier (its imports are namespace or side-effect
\* imports, or it only re-exports) is the source of no edge, and the edges of any file
\* lead only to origins resolved for its named and default import specifiers.
C27_OnlyNamedAndDefaultImports ==
  \A filePath \in Range(astCache) :
    /\ ImportsOf(filePath) = {} => NoEdgeFrom(filePath)
    /\ \A id \in NodesIn(filePath) :
         Deps(id) \subseteq {exportCalls[c].origin :
                              c \in {k \in 1..Len(exportCalls) :
                                       /\ exportCalls[k].importer = filePath
                                       /\ \E imp \in ImportsOf(filePath) :
                                            imp.name = exportCalls[k].name}}

\* the re-export chain is built without failures: setup.ts, with a side-effect and a
\* namespace import of origin.ts, and the two barrel files, which only re-export Foo,
\* have no edge, while consumer.ts has its edge to origin.ts#Foo
C27_Witness ==
  /\ pc = "done"
  /\ faults = {}
  /\ {"setup.ts", "setup.ts#setup", "barrel/index.ts", "barrel/mid.ts", "origin.ts#default"}
       \subseteq DOMAIN graph
  /\ ResolveKey("setup.ts", "./origin") \in DOMAIN resolutionCache
  /\ resolutionCache[ResolveKey("setup.ts", "./origin")] = "origin.ts"
  /\ NoEdgeFrom("setup.ts") /\ NoEdgeFrom("barrel/index.ts") /\ NoEdgeFrom("barrel/mid.ts")
  /\ "origin.ts#Foo" \in Deps("consumer.ts")

\* how often a diagnostic occurs in the list
Occurrences(q, x) == Cardinality({i \in 1..Len(q) : q[i] = x})

\* the import declarations of a file with the given source
ImportsFrom(filePath, source) ==
  {i \in 1..Len(AstOf(filePath)) :
     AstOf(filePath)[i].type = "ImportDeclaration" /\ AstOf(filePath)[i].source = source}

\* C28: one diagnostic per illegal pair. Within a build (one PathResolver), the
\* diagnostic of a cross-package relative import occurs exactly once in the diagnostics
\* once resolve has answered for its (fromPath, importSpecifier) pair, the cached answer
\* is null, and no diagnostic of that kind occurs for a pair resolve has not answered for,
\* however many import statements or re-export traversals repeat the pair.
C28_DiagnosticOncePerPair ==
  \A pair \in ResolvePairs :
    /\ (/\ ResolveKey(pair.fromPath, pair.importPath) \in DOMAIN resolutionCache
        /\ CrossPackageRelative(pair.fromPath, pair.importPath))
         => /\ Occurrences(errors, InvalidImportMessage(pair.fromPath, pair.importPath)) = 1
            /\ resolutionCache[ResolveKey(pair.fromPath, pair.importPath)] = NULL
    /\ Occurrences(errors, InvalidImportMessage(pair.fromPath, pair.importPath)) <= 1
    /\ ResolveKey(pair.fromPath, pair.importPath) \notin DOMAIN resolutionCache
         => Occurrences(errors, InvalidImportMessage(pair.fromPath, pair.importPath)) = 0

\* packages/a/src/x.ts has been linked without failures: both of its import statements
\* of '../../b/src/y' were visited, and the diagnostic is there once
C28_Witness ==
  /\ pc = "done"
  /\ faults = {}
  /\ "packages/a/src/x.ts" \in Range(astCache)
  /\ Cardinality(ImportsFrom("packages/a/src/x.ts", "../../b/src/y")) = 2
  /\ ResolveKey("packages/a/src/x.ts", "../../b/src/y") \in DOMAIN resolutionCache
  /\ errors = <<InvalidImportMessage("packages/a/src/x.ts", "../../b/src/y")>>

\* C29: resolve answers with known files only. Every result of a resolve call that is
\* not null, computed or served from the memoization cache, is a member of the file set
\* the resolver was constructed with, and so is every value the cache holds; this for
\* every importing file and specifier tried, with and without alias prefix, including
\* specifiers whose '..' segments climb above the repository root.
C29_ResolvedIsKnownFile ==
  /\ \A c \in 1..Len(resolveCalls) :
       resolveCalls[c].value # NULL => resolveCalls[c].value \in filePaths
  /\ \A key \in DOMAIN resolutionCache :
       resolutionCache[key] # NULL => resolutionCache[key] \in filePaths

\* '../../widget' was resolved twice from app.ts, a file at the repository root: the
\* '..' segments were dropped, the second answer came from the cache, and both are the
\* known file the clamped path leads to
C29_Witness ==
  /\ Len(resolveCalls) = 2
  /\ resolveCalls[1].fromPath = "app.ts"
  /\ resolveCalls[1].importPath = "../../widget"
  /\ resolveCalls[2].importPath = resolveCalls[1].importPath
  /\ resolveCalls[2].fromPath = resolveCalls[1].fromPath
  /\ ~resolveCalls[1].cached /\ resolveCalls[2].cached
  /\ resolveCalls[1].value # NULL
  /\ resolveCalls[2].value = resolveCalls[1].value
  /\ resolveCalls[2].value \in filePaths

\* the call that was traced, repeated with other arguments on the same graph
Retraced(mode, maxHops) ==
  Range(traceSymbolGraph(graph, graphOrder, traced.startId, mode, maxHops))

\* C30: trace results are monotone. For every graph a build produced and every traced
\* startId, mode and maxHops, the files returned are among the files returned for
\* maxHops + 1 in the same mode, and among the files returned in mode 'both' for the
\* same maxHops (so 'both' contains the 'dependencies' and the 'dependents' result).
C30_TraceMonotone ==
  traced.called =>
    /\ Range(traced.result) \subseteq Retraced(traced.mode, traced.maxHops + 1)
    /\ Range(traced.result) \subseteq Retraced("both", traced.maxHops)

\* a one-directional trace from a known start was run for which one more hop and the
\* mode 'both' each return strictly more files
C30_Witness ==
  /\ traced.called
  /\ traced.mode # "both"
  /\ traced.maxHops >= 1
  /\ Range(traced.result) # {}
  /\ Range(traced.result) # Retraced(traced.mode, traced.maxHops + 1)
  /\ Range(traced.result) # Retraced("both", traced.maxHops)
  /\ Retraced("dependencies", traced.maxHops) \cup Retraced("dependents", traced.maxHops)
       \subseteq Retraced("both", traced.maxHops)

====
